---- MODULE Spec2Model ----
(***************************************************************************)
(* Head-pose-to-cursor control loop of MonitorTracking.py:                 *)
(* OneEuroFilter and HeadMouseTracker (constructor, start, stop,           *)
(* toggle_mouse_control, set_performance_mode, calibrate_center,           *)
(* mouse_mover, process_loop) as a state machine over Python threads.      *)
(*                                                                         *)
(* Numbers.  Python floats are modelled in fixed point:                    *)
(*   cut-off frequencies and beta in thousandths (1.5 Hz = 1500),          *)
(*   sampling frequency in Hz, tick interval in milliseconds,              *)
(*   filter memory prev_x in thousandths of a pixel, prev_dx in pixel/s,   *)
(*   angles in whole degrees, landmark coordinates as integers.            *)
(* None is the value NoneV and a float NaN is the value NaN.               *)
(***************************************************************************)
EXTENDS Integers, Sequences, FiniteSets, TLC

(* ---------------------------------------------------------------------- *)
(* Bounds of the exploration                                               *)
(* ---------------------------------------------------------------------- *)
MaxFrames == 2      \* frames the source delivers, tracking specification
MaxStartsLife == 2  \* start() calls of the host, lifecycle specification
MaxFramesLife == 1  \* frames the source delivers, lifecycle specification
MaxThreads == 2     \* thread objects of the tracker in existence at the same time
MaxMoves == 2       \* pointer moves counted after the flag was switched off
FilterLength == 1   \* filter_length passed to the constructor
MaxModeCalls == 2   \* set_performance_mode calls of the host
AngleDen == 32      \* the mapping specification takes angles in 1/AngleDen degree

(* ---------------------------------------------------------------------- *)
(* Values                                                                  *)
(* ---------------------------------------------------------------------- *)
Abs(a) == IF a < 0 THEN -a ELSE a
Min(a, b) == IF a < b THEN a ELSE b
Max(a, b) == IF a > b THEN a ELSE b

NoneV == -999999
NaN == -888888
Host == 0
\* thread objects of a tracker whose host calls start() again while loops
\* of an earlier start() are alive
HostThreads == MaxThreads + 1
Threads == 0..HostThreads
Spawned == 1..HostThreads
\* App.start_face_tracking builds a tracker and starts it once
StartsPerTracker == 1
MaxHandles == Max(StartsPerTracker, MaxStartsLife)
Handles == 1..MaxHandles

screen_w == 640
screen_h == 480
center_x == screen_w \div 2
center_y == screen_h \div 2
yaw_range == 20
pitch_range == 10
d_cutoff == 1000

\* Python int(): truncation towards zero of a / b, b > 0
IntDiv(a, b) == IF a >= 0 THEN a \div b ELSE -((-a) \div b)
\* Python bool(v) of an optional number: None and 0 are falsy
Truthy(v) == v /= NoneV /\ v /= 0
\* Python "a or b"
Or(a, b) == IF Truthy(a) THEN a ELSE b
\* Python any([...])
AnyTruthy(s) == \E i \in 1..Len(s) : Truthy(s[i])

(* ---------------------------------------------------------------------- *)
(* OneEuroFilter                                                           *)
(* ---------------------------------------------------------------------- *)
OneEuroFilter(min_cutoff, beta, freq) ==
    [min_cutoff |-> min_cutoff, beta |-> beta, freq |-> freq,
     prev_x |-> NoneV, prev_dx |-> NoneV]

\* alpha = 1 / (1 + tau/dt) = 2 pi c / (2 pi c + freq), in thousandths,
\* with 2 pi = 44/7 and the cut-off c given in thousandths of a Hz
\* _alpha with tau / dt subtracted: 1 / (1 - tau / dt)
AlphaSignError(f, cutoff) ==
    LET A == 44 * cutoff
        B == 7000 * f.freq
    IN  IF Abs(A - B) < 1000 THEN 1000 ELSE IntDiv(A, IntDiv(A - B, 1000))
\* lines 27-31: 1 / (1 + tau / dt) = 2 pi cutoff / (2 pi cutoff + freq), in
\* thousandths, with 2 pi taken as 44/7; any sign of cutoff and freq
Alpha(f, cutoff) ==
    LET A == 44 * cutoff
        B == 7000 * f.freq
    IN  IF A + B = 0 THEN 1000
        ELSE IF Abs(A + B) < 1000 THEN IntDiv(A * 1000, A + B)
        ELSE IntDiv(A, IntDiv(A + B, 1000))
\* lines 29 and 31: 1.0 / 0.0 raises ZeroDivisionError
AlphaRaises(f, cutoff) == cutoff = 0 \/ 44 * cutoff + 7000 * f.freq = 0

\* Python round() of a value given in thousandths (ties to even)
Round(m) ==
    LET q == m \div 1000
        r == m % 1000
    IN  IF r < 500 THEN q
        ELSE IF r > 500 THEN q + 1
        ELSE IF q % 2 = 0 THEN q ELSE q + 1

FilterDx(f, x) ==
    IF f.prev_x = NoneV THEN 0
    ELSE IntDiv((x * 1000 - f.prev_x) * f.freq, 1000)

FilterSmoothDx(f, x) ==
    IF f.prev_dx = NoneV THEN FilterDx(f, x)
    ELSE LET alpha_d == Alpha(f, d_cutoff)
         IN  IntDiv(alpha_d * FilterDx(f, x) + (1000 - alpha_d) * f.prev_dx, 1000)

\* filter() that smooths the first sample against a previous value of 0
FilterSmoothXNoSeed(f, x) ==
    LET cutoff == f.min_cutoff + f.beta * Abs(FilterSmoothDx(f, x))
        alpha == Alpha(f, cutoff)
        prev == IF f.prev_x = NoneV THEN 0 ELSE f.prev_x
    IN  IntDiv(alpha * (x * 1000) + (1000 - alpha) * prev, 1000)

FilterSmoothX(f, x) ==
    LET cutoff == f.min_cutoff + f.beta * Abs(FilterSmoothDx(f, x))
        alpha == Alpha(f, cutoff)
    IN  IF f.prev_x = NoneV THEN x * 1000
        ELSE IntDiv(alpha * (x * 1000) + (1000 - alpha) * f.prev_x, 1000)

\* filter(x) ends by a ZeroDivisionError
FilterRaises(f, x) ==
    \/ f.prev_dx /= NoneV /\ AlphaRaises(f, d_cutoff)
    \/ AlphaRaises(f, f.min_cutoff + f.beta * Abs(FilterSmoothDx(f, x)))

\* the filter object after filter(x)
FilterStep(f, x) ==
    [f EXCEPT !.prev_x = FilterSmoothX(f, x), !.prev_dx = FilterSmoothDx(f, x)]

\* the value filter(x) returns, in thousandths of a pixel
FilterOut(f, x) == FilterSmoothX(f, x)

(* ---------------------------------------------------------------------- *)
(* Geometry of process_loop                                                *)
(* ---------------------------------------------------------------------- *)
Sub(a, b) == <<a[1] - b[1], a[2] - b[2], a[3] - b[3]>>
Add(a, b) == <<a[1] + b[1], a[2] + b[2], a[3] + b[3]>>
Neg(a) == <<-a[1], -a[2], -a[3]>>
Cross(a, b) == <<a[2] * b[3] - a[3] * b[2],
                 a[3] * b[1] - a[1] * b[3],
                 a[1] * b[2] - a[2] * b[1]>>
IsZero(a) == a[1] = 0 /\ a[2] = 0 /\ a[3] = 0
Sgn(a) == IF a > 0 THEN 1 ELSE IF a < 0 THEN -1 ELSE 0
NaNVec == <<NaN, NaN, NaN>>
\* v / np.linalg.norm(v): exact for the axis-parallel vectors the landmark
\* frames below span; 0/0 is NaN (numpy warns, it does not raise)
Normalize(v) ==
    IF v = NaNVec \/ IsZero(v) THEN NaNVec
    ELSE <<Sgn(v[1]), Sgn(v[2]), Sgn(v[3])>>

right_vec(lm) == Normalize(Sub(lm.right, lm.left))
up_vec(lm) == Normalize(Sub(lm.top, lm.bottom))
\* the cross product taken as the forward vector without the negation
forward_vecNotNegated(lm) ==
    IF right_vec(lm) = NaNVec \/ up_vec(lm) = NaNVec THEN NaNVec
    ELSE Normalize(Cross(right_vec(lm), up_vec(lm)))

forward_vec(lm) ==
    IF right_vec(lm) = NaNVec \/ up_vec(lm) = NaNVec THEN NaNVec
    ELSE LET c == Normalize(Cross(right_vec(lm), up_vec(lm)))
         IN  IF c = NaNVec THEN NaNVec ELSE Neg(c)
\* 5 * center: the sum of the five landmarks
center(lm) == Add(Add(Add(Add(lm.left, lm.right), lm.top), lm.bottom), lm.front)
\* int(p[0]) of a cube corner raises ValueError when a basis vector is NaN
CornersRaise(lm) == forward_vec(lm) = NaNVec

\* a buffer without maxlen
AppendUnbounded(buf, v) == Append(buf, v)
\* deque(maxlen=filter_length).append
Append_(buf, v) ==
    IF Len(buf) < FilterLength THEN Append(buf, v)
    ELSE IF FilterLength = 0 THEN buf
    ELSE Append(Tail(buf), v)

RECURSIVE SumVec(_)
SumVec(buf) == IF buf = <<>> THEN <<0, 0, 0>> ELSE Add(Head(buf), SumVec(Tail(buf)))

\* np.mean(directions) renormalised: the direction of the sum
smooth_direction(dirs) == LET s == SumVec(dirs) IN IF IsZero(s) THEN NaNVec ELSE s

\* degrees(acos(dot((0,0,-1), (a,0,b)/|(a,0,b)|))) for the directions that
\* sums of at most two axis vectors produce
AcosDeg(a, b) ==
    CASE a = 0 /\ b < 0 -> 0
      [] a /= 0 /\ b < 0 /\ Abs(a) = -b -> 45
      [] a /= 0 /\ b = 0 -> 90
      [] a /= 0 /\ b > 0 /\ Abs(a) = b -> 135
      [] a = 0 /\ b > 0 -> 180

\* yaw measured from (0, 0, 1) instead of the reference vector (0, 0, -1)
YawSignedFromCamera(sd) ==
    IF sd = NaNVec \/ (sd[1] = 0 /\ sd[3] = 0) THEN NaN
    ELSE IF sd[1] < 0 THEN -AcosDeg(sd[1], -sd[3]) ELSE AcosDeg(sd[1], -sd[3])
\* signed yaw of lines 367-372, 381
YawSigned(sd) ==
    IF sd = NaNVec \/ (sd[1] = 0 /\ sd[3] = 0) THEN NaN
    ELSE IF sd[1] < 0 THEN -AcosDeg(sd[1], sd[3]) ELSE AcosDeg(sd[1], sd[3])
\* signed pitch of lines 374-382
PitchSigned(sd) ==
    IF sd = NaNVec \/ (sd[2] = 0 /\ sd[3] = 0) THEN NaN
    ELSE IF sd[2] > 0 THEN -AcosDeg(sd[2], sd[3]) ELSE AcosDeg(sd[2], sd[3])

\* lines 385-388
NormYaw(yaw_deg) ==
    IF yaw_deg = NaN THEN NaN
    ELSE IF yaw_deg < 0 THEN Abs(yaw_deg)
    ELSE IF yaw_deg < 180 THEN 360 - yaw_deg
    ELSE yaw_deg
\* lines 389-390
NormPitch(pitch_deg) ==
    IF pitch_deg = NaN THEN NaN
    ELSE IF pitch_deg < 0 THEN 360 + pitch_deg
    ELSE pitch_deg

\* float addition
FAdd(a, b) == IF a = NaN \/ b = NaN THEN NaN ELSE a + b

\* line 401 for a yaw of n/d degrees: int(((yaw - (180 - yaw_range)) /
\* (2 * yaw_range)) * screen_w), computed exactly (the float expression
\* gives the same for whole degrees)
ScreenX(n, d) == IntDiv((n - (180 - yaw_range) * d) * screen_w, 2 * yaw_range * d)
\* a vertical mapping that grows with the pitch
ScreenYRising(n, d) == IntDiv((n - (180 - pitch_range) * d) * screen_h, 2 * pitch_range * d)
\* line 402 for a pitch of n/d degrees
ScreenY(n, d) == IntDiv(((180 + pitch_range) * d - n) * screen_h, 2 * pitch_range * d)
\* a clamp with the upper limit only
ClampXUpperOnly(x) == Min(screen_w - 10, x)
\* line 405
ClampX(x) == Max(10, Min(screen_w - 10, x))
\* line 406
ClampY(y) == Max(10, Min(screen_h - 10, y))
\* lines 401, 405
MapX(yaw_deg) == ClampX(ScreenX(yaw_deg, 1))
\* lines 402, 406
MapY(pitch_deg) == ClampY(ScreenY(pitch_deg, 1))

(* ---------------------------------------------------------------------- *)
(* Landmark frames the source can deliver (after landmark_to_3d)           *)
(* ---------------------------------------------------------------------- *)
Landmarks(l, r, t, b, f) == [left |-> l, right |-> r, top |-> t, bottom |-> b, front |-> f]
\* image coordinates (y grows downwards): the face looks into the camera
FaceAhead == Landmarks(<<-1, 0, 0>>, <<1, 0, 0>>, <<0, -1, 0>>, <<0, 1, 0>>, <<0, 0, -1>>)
\* the same landmarks with top and bottom exchanged
FaceFlipped == Landmarks(<<-1, 0, 0>>, <<1, 0, 0>>, <<0, 1, 0>>, <<0, -1, 0>>, <<0, 0, -1>>)
\* left = right
FaceLeftIsRight == Landmarks(<<1, 0, 0>>, <<1, 0, 0>>, <<0, -1, 0>>, <<0, 1, 0>>, <<0, 0, -1>>)
\* top = bottom
FaceTopIsBottom == Landmarks(<<-1, 0, 0>>, <<1, 0, 0>>, <<0, 1, 0>>, <<0, 1, 0>>, <<0, 0, -1>>)
\* right and up vectors collinear
FaceCollinear == Landmarks(<<-1, 0, 0>>, <<1, 0, 0>>, <<2, 0, 0>>, <<-2, 0, 0>>, <<0, 0, -1>>)

\* name of a delivered frame -> its five key landmarks
FaceFrames == {"ahead", "flipped", "leftisright", "topisbottom", "collinear"}
LM(name) ==
    CASE name = "ahead" -> FaceAhead
      [] name = "flipped" -> FaceFlipped
      [] name = "leftisright" -> FaceLeftIsRight
      [] name = "topisbottom" -> FaceTopIsBottom
      [] name = "collinear" -> FaceCollinear

(* ---------------------------------------------------------------------- *)
(* State                                                                   *)
(* ---------------------------------------------------------------------- *)
VARIABLES
    \* HeadMouseTracker fields
    fast_mode, allow_override, mouse_sleep, euro_freq, euro_cutoff, euro_beta,
    filter_x, filter_y,
    mouse_enabled, cal_yaw, cal_pitch, raw_yaw, raw_pitch, origins, directions,
    mouse_target, mouse_lock,
    stop_event, mouse_thread, loop_thread, cap, face_mesh,
    \* cv2.VideoCapture objects: "unused", "open", "failed", "released"
    handle,
    \* threads: position; what the thread's stop() was called from ("api",
    \* "loop") or "stop_raised" once its stop() has raised; the block argument
    \* of start(); the frame a processing loop holds; the (x, y) pair a
    \* thread holds
    pc, ctx, block, frame, xy,
    \* environment: can the camera be opened, the frames the source can
    \* deliver, how many start() calls, frames and thread objects the run
    \* explores, which of the observations below it records
    camera_ok, source, max_starts, max_frames, max_threads, watch,
    \* history
    args,          \* the constructor arguments
    nstarts,       \* start() calls so far
    nframes,       \* frames delivered so far
    start_unavail, \* the start() call in progress found no usable source
    join_to,       \* per thread: a join of its stop() timed out
    cap_at_entry,  \* per thread: self.cap when its stop() was called
    moves_off,     \* pointer moves issued since the flag was switched off
    calls,         \* "fresh", "started", "stopped", "mixed": host call history
    mode_calls,    \* the arguments of the set_performance_mode calls so far
    sample,        \* the input pair a function was last applied to on its own
    \* recorded when "reads" is watched
    committed,     \* the pair of the latest complete write of self.mouse_target
    ncommits,      \* complete writes of self.mouse_target so far
    seen,          \* ncommits when the mouse loop last read self.mouse_target
    \* recorded when "stops" is watched
    since_stop,    \* per thread: -1, or the moves (mouse loop) or writes (processing
                   \* loop) it has made since a stop() set the signal while it ran
    \* recorded by the steps of the interleaving specification
    snap           \* filt: the coefficients of the filter line 409 used for the frame
                   \* in progress; yaws, pitches: stores of self.raw_yaw and of
                   \* self.raw_pitch so far; cal: yaws when line 263 read self.raw_yaw

envVars == <<args, source, max_starts, max_frames, max_threads, watch, sample>>
cfgVars == <<fast_mode, allow_override, mouse_sleep, euro_freq, euro_cutoff, euro_beta, envVars>>
filtVars == <<filter_x, filter_y>>
trackVars == <<cal_yaw, cal_pitch, raw_yaw, raw_pitch, origins, directions>>
targetVars == <<mouse_target, mouse_lock>>
lifeVars == <<stop_event, mouse_thread, loop_thread, cap, face_mesh, handle>>
thrVars == <<pc, ctx, block, frame, xy>>
histVars == <<nstarts, nframes, start_unavail, join_to, cap_at_entry, moves_off, calls,
              mode_calls>>
obsVars == <<committed, ncommits, seen, since_stop, snap>>
vars == <<cfgVars, filtVars, trackVars, targetVars, lifeVars, thrVars, histVars,
          mouse_enabled, camera_ok, obsVars>>

NoThread == -1
NoXY == <<0, 0>>
MouseSteps == {"m_top", "m_read", "m_check", "m_move"}
LoopSteps == {"p_top", "p_read", "p_frame", "p_raw_pitch", "p_filter_y", "p_commit",
              "p_write", "p_keys"}
StopSteps == {"s_set", "s_joinLoop", "s_joinMouse", "s_cap", "s_mesh", "s_ret"}
\* Thread.is_alive()
Alive(t) == t /= NoThread /\ t /= Host /\ pc[t] \in MouseSteps \cup LoopSteps \cup StopSteps
FreeThreads == {t \in Spawned : t <= max_threads /\ pc[t] = "none"}
NewThread == CHOOSE t \in FreeThreads : \A u \in FreeThreads : t <= u
NewHandle == CHOOSE h \in Handles : handle[h] = "unused" /\ \A g \in Handles : handle[g] = "unused" => h <= g
\* a finished thread object that the tracker no longer references is gone
Reap(p, mt, lt) ==
    [t \in Threads |->
        IF t /= Host /\ p[t] \in {"done", "crashed"} /\ t /= mt /\ t /= lt THEN "none" ELSE p[t]]

(* ---------------------------------------------------------------------- *)
(* HeadMouseTracker.__init__                                               *)
(* ---------------------------------------------------------------------- *)
CtorArgs(mc, b, f, fm, aro) ==
    [euro_min_cutoff |-> mc, euro_beta |-> b, euro_freq |-> f,
     fast_mode |-> fm, allow_runtime_override |-> aro]

\* a constructor that lets explicit coefficients be replaced at run time
AllowOverrideAlways(a) == a.allow_runtime_override
\* lines 103-104
AllowOverride(a) ==
    a.allow_runtime_override /\ ~AnyTruthy(<<a.euro_min_cutoff, a.euro_beta, a.euro_freq>>)
\* lines 107-118: the presets
PresetSleep(fm) == IF fm THEN 5 ELSE 16
PresetFreq(fm) == IF fm THEN 120 ELSE 45
PresetCutoff(fm) == IF fm THEN 800 ELSE 1500
PresetBeta(fm) == IF fm THEN 15 ELSE 30
CtorFreq(a) == Or(a.euro_freq, PresetFreq(a.fast_mode))
CtorCutoff(a) == Or(a.euro_min_cutoff, PresetCutoff(a.fast_mode))
CtorBeta(a) == Or(a.euro_beta, PresetBeta(a.fast_mode))

Ctor(a) ==
    /\ args = a
    /\ cap = 0
    /\ fast_mode = a.fast_mode
    /\ allow_override = AllowOverride(a)
    /\ mouse_sleep = PresetSleep(a.fast_mode)
    /\ mouse_enabled = TRUE
    /\ cal_yaw = 0 /\ cal_pitch = 0
    /\ raw_yaw = 180 /\ raw_pitch = 180
    /\ origins = <<>> /\ directions = <<>>
    /\ euro_freq = CtorFreq(a)
    /\ euro_cutoff = CtorCutoff(a)
    /\ euro_beta = CtorBeta(a)
    /\ filter_x = OneEuroFilter(CtorCutoff(a), CtorBeta(a), CtorFreq(a))
    /\ filter_y = OneEuroFilter(CtorCutoff(a), CtorBeta(a), CtorFreq(a))
    /\ mouse_target = <<center_x, center_y>>
    /\ mouse_lock = NoThread
    /\ stop_event = FALSE
    /\ mouse_thread = NoThread
    /\ loop_thread = NoThread
    /\ face_mesh = "None"
    /\ handle = [h \in Handles |-> "unused"]
    /\ pc = [t \in Threads |-> IF t = Host THEN "idle" ELSE "none"]
    /\ ctx = [t \in Threads |-> "none"]
    /\ block = FALSE
    /\ frame = [t \in Threads |-> "none"]
    /\ snap = [filt |-> NoneV, yaws |-> 0, pitches |-> 0, cal |-> NoneV]
    /\ xy = [t \in Threads |-> NoXY]
    /\ nstarts = 0 /\ nframes = 0
    /\ start_unavail = FALSE
    /\ join_to = [t \in Threads |-> FALSE]
    /\ cap_at_entry = [t \in Threads |-> 0]
    /\ moves_off = 0
    /\ calls = "fresh"
    /\ mode_calls = <<>>
    /\ sample = NoXY
    /\ committed = <<center_x, center_y>>
    /\ ncommits = 0
    /\ seen = 0
    /\ since_stop = [t \in Threads |-> -1]

\* the tracker of App.start_face_tracking: HeadMouseTracker(fast_mode=False),
\* started once, watching a source that can deliver every kind of frame
Init ==
    /\ camera_ok \in BOOLEAN
    /\ source = FaceFrames \cup {"noface"}
    /\ max_starts = StartsPerTracker
    /\ max_frames = MaxFrames
    /\ max_threads = MaxThreads
    /\ watch = {}
    /\ Ctor(CtorArgs(NoneV, NoneV, NoneV, FALSE, TRUE))

(* ---------------------------------------------------------------------- *)
(* Thread bookkeeping                                                      *)
(* ---------------------------------------------------------------------- *)
\* thread t moves on to step p holding frame f and the pair v
Step(t, p, f, v) ==
    /\ pc' = [pc EXCEPT ![t] = p]
    /\ frame' = [frame EXCEPT ![t] = f]
    /\ xy' = [xy EXCEPT ![t] = v]
    /\ UNCHANGED <<ctx, block, start_unavail, cap_at_entry, join_to>>

\* uncaught exception in thread t: a spawned thread dies, the host gets the
\* exception out of the call it made
Raise(t) ==
    /\ pc' = Reap([pc EXCEPT ![t] = IF t = Host THEN "idle" ELSE "crashed"],
                  mouse_thread, loop_thread)
    /\ ctx' = [ctx EXCEPT ![t] = IF pc[t] \in StopSteps THEN "stop_raised" ELSE "none"]
    /\ frame' = [frame EXCEPT ![t] = "none"]
    /\ xy' = [xy EXCEPT ![t] = NoXY]
    /\ start_unavail' = IF t = Host THEN FALSE ELSE start_unavail
    /\ cap_at_entry' = [cap_at_entry EXCEPT ![t] = 0]
    /\ join_to' = [join_to EXCEPT ![t] = FALSE]
    /\ UNCHANGED block

\* self.stop() called from process_loop (lines 437, 446, 450)
CallStopFromLoop(t) ==
    /\ pc' = [pc EXCEPT ![t] = "s_set"]
    /\ ctx' = [ctx EXCEPT ![t] = "loop"]
    /\ frame' = [frame EXCEPT ![t] = "none"]
    /\ xy' = [xy EXCEPT ![t] = NoXY]
    /\ cap_at_entry' = [cap_at_entry EXCEPT ![t] = cap]
    /\ join_to' = [join_to EXCEPT ![t] = FALSE]
    /\ UNCHANGED <<block, start_unavail>>

(* ---------------------------------------------------------------------- *)
(* start(block)                                                            *)
(* ---------------------------------------------------------------------- *)
\* the host calls start(b)
StartCall ==
    /\ pc[Host] = "idle"
    /\ nstarts < max_starts
    /\ \E b \in BOOLEAN :
        /\ block' = b
        /\ Cardinality(FreeThreads) >= (IF b THEN 1 ELSE 2)
    /\ pc' = [pc EXCEPT ![Host] = "start1"]
    /\ ctx' = [ctx EXCEPT ![Host] = "none"]
    /\ nstarts' = nstarts + 1
    /\ start_unavail' = (~camera_ok /\ (cap = 0 \/ handle[cap] /= "open"))
    /\ calls' = IF calls \in {"fresh", "stopped"} THEN "started" ELSE "mixed"
    /\ UNCHANGED <<cfgVars, filtVars, trackVars, targetVars, lifeVars, frame, xy,
                   nframes, join_to, cap_at_entry, moves_off, mode_calls, mouse_enabled,
                   camera_ok, obsVars>>

\* the host calls start(block=False), as App.start_face_tracking does
StartNonBlocking ==
    /\ pc[Host] = "idle"
    /\ nstarts < max_starts
    /\ FreeThreads /= {}
    /\ block' = FALSE
    /\ pc' = [pc EXCEPT ![Host] = "start1"]
    /\ ctx' = [ctx EXCEPT ![Host] = "none"]
    /\ nstarts' = nstarts + 1
    /\ start_unavail' = (~camera_ok /\ (cap = 0 \/ handle[cap] /= "open"))
    /\ calls' = IF calls \in {"fresh", "stopped"} THEN "started" ELSE "mixed"
    /\ UNCHANGED <<cfgVars, filtVars, trackVars, targetVars, lifeVars, frame, xy,
                   nframes, join_to, cap_at_entry, moves_off, mode_calls, mouse_enabled,
                   camera_ok, obsVars>>

\* lines 159-172: create the detector, open the camera
StartOpen ==
    /\ pc[Host] = "start1"
    /\ face_mesh' = "live"
    /\ IF cap = 0
       THEN /\ cap' = NewHandle
            /\ handle' = [handle EXCEPT ![NewHandle] = IF camera_ok THEN "open" ELSE "failed"]
            /\ IF camera_ok
               THEN /\ pc' = [pc EXCEPT ![Host] = "start2"]
                    /\ UNCHANGED <<start_unavail, block>>
               ELSE \* line 172: raise RuntimeError
                    /\ pc' = [pc EXCEPT ![Host] = "idle"]
                    /\ start_unavail' = FALSE
                    /\ block' = FALSE
       ELSE /\ pc' = [pc EXCEPT ![Host] = "start2"]
            /\ UNCHANGED <<cap, handle, start_unavail, block>>
    /\ UNCHANGED <<cfgVars, filtVars, trackVars, targetVars, stop_event, mouse_thread,
                   loop_thread, ctx, frame, xy, nstarts, nframes,
                   join_to, cap_at_entry, moves_off, calls, mode_calls, mouse_enabled, camera_ok, obsVars>>

\* lines 173-177: clear the stop signal, start the mouse thread
StartMouse ==
    /\ pc[Host] = "start2"
    /\ FreeThreads /= {}
    /\ stop_event' = FALSE
    /\ mouse_thread' = NewThread
    /\ pc' = Reap([pc EXCEPT ![Host] = "start3", ![NewThread] = "m_top"],
                  NewThread, loop_thread)
    /\ since_stop' = [since_stop EXCEPT ![NewThread] = -1]
    /\ UNCHANGED <<cfgVars, filtVars, trackVars, targetVars, loop_thread, cap, face_mesh,
                   handle, ctx, block, frame, xy, histVars, mouse_enabled, camera_ok,
                   committed, ncommits, seen, snap>>

\* lines 180-184: run process_loop in the caller or in a new thread
StartLoop ==
    /\ pc[Host] = "start3"
    /\ block \/ FreeThreads /= {}
    /\ IF block
       THEN /\ pc' = [pc EXCEPT ![Host] = "p_top"]
            /\ since_stop' = [since_stop EXCEPT ![Host] = -1]
            /\ UNCHANGED <<loop_thread, start_unavail>>
       ELSE /\ loop_thread' = NewThread
            /\ pc' = Reap([pc EXCEPT ![Host] = "idle", ![NewThread] = "p_top"],
                          mouse_thread, NewThread)
            /\ since_stop' = [since_stop EXCEPT ![NewThread] = -1]
            /\ start_unavail' = FALSE
    /\ block' = FALSE
    /\ UNCHANGED <<cfgVars, filtVars, trackVars, targetVars, stop_event, mouse_thread, cap,
                   face_mesh, handle, ctx, frame, xy, nstarts, nframes,
                   join_to, cap_at_entry, moves_off, calls, mode_calls, mouse_enabled, camera_ok,
                   committed, ncommits, seen, snap>>

(* ---------------------------------------------------------------------- *)
(* mouse_mover                                                             *)
(* ---------------------------------------------------------------------- *)
\* one more move or write of a loop that was running when stop() set the
\* signal; other loops are not counted
Counted(n) == IF n < 0 THEN n ELSE Min(MaxMoves, n + 1)

\* mouse_mover that reads the target without waiting for the lock
MouseTopNoLock(t) ==
    /\ pc[t] = "m_top"
    /\ IF stop_event
       THEN pc' = Reap([pc EXCEPT ![t] = "done"], mouse_thread, loop_thread)
       ELSE pc' = [pc EXCEPT ![t] = "m_read"]
    /\ UNCHANGED mouse_lock
    /\ UNCHANGED <<cfgVars, filtVars, trackVars, mouse_target, lifeVars, ctx, block, frame, xy,
                   histVars, mouse_enabled, camera_ok, obsVars>>

\* lines 269-270: while not self.stop_event.is_set(): with self.mouse_lock
\* (the lock is taken once it is free)
MouseTop(t) ==
    /\ pc[t] = "m_top"
    /\ IF stop_event
       THEN /\ pc' = Reap([pc EXCEPT ![t] = "done"], mouse_thread, loop_thread)
            /\ UNCHANGED mouse_lock
       ELSE /\ mouse_lock = NoThread
            /\ mouse_lock' = t
            /\ pc' = [pc EXCEPT ![t] = "m_read"]
    /\ UNCHANGED <<cfgVars, filtVars, trackVars, mouse_target, lifeVars, ctx, block, frame, xy,
                   histVars, mouse_enabled, camera_ok, obsVars>>

\* line 271: x, y = self.mouse_target; the with block ends, the lock is
\* released
MouseRead(t) ==
    /\ pc[t] = "m_read"
    /\ xy' = [xy EXCEPT ![t] = mouse_target]
    /\ mouse_lock' = NoThread
    /\ pc' = [pc EXCEPT ![t] = "m_check"]
    /\ seen' = IF "reads" \in watch THEN ncommits ELSE seen
    /\ UNCHANGED <<cfgVars, filtVars, trackVars, mouse_target, lifeVars, ctx, block, frame,
                   histVars, mouse_enabled, camera_ok, committed, ncommits, since_stop, snap>>

\* mouse_mover that moves without looking at self.mouse_enabled
MouseCheckIgnoresFlag(t) ==
    /\ pc[t] = "m_check"
    /\ pc' = [pc EXCEPT ![t] = "m_move"]
    /\ UNCHANGED xy
    /\ UNCHANGED <<cfgVars, filtVars, trackVars, targetVars, lifeVars, ctx, block, frame,
                   histVars, mouse_enabled, camera_ok, obsVars>>

\* line 272: if self.mouse_enabled (line 274, the sleep, when it is off)
MouseCheck(t) ==
    /\ pc[t] = "m_check"
    /\ IF mouse_enabled
       THEN /\ pc' = [pc EXCEPT ![t] = "m_move"]
            /\ UNCHANGED xy
       ELSE /\ pc' = [pc EXCEPT ![t] = "m_top"]
            /\ xy' = [xy EXCEPT ![t] = NoXY]
    /\ UNCHANGED <<cfgVars, filtVars, trackVars, targetVars, lifeVars, ctx, block, frame,
                   histVars, mouse_enabled, camera_ok, obsVars>>

\* lines 273-274: pyautogui.moveTo(x, y) succeeds; sleep
MouseMove(t) ==
    /\ pc[t] = "m_move"
    /\ pc' = [pc EXCEPT ![t] = "m_top"]
    /\ xy' = [xy EXCEPT ![t] = NoXY]
    /\ moves_off' = IF mouse_enabled THEN moves_off ELSE Min(MaxMoves, moves_off + 1)
    /\ since_stop' = [since_stop EXCEPT ![t] = Counted(since_stop[t])]
    /\ UNCHANGED <<cfgVars, filtVars, trackVars, targetVars, lifeVars, ctx, block, frame,
                   nstarts, nframes, start_unavail, join_to, cap_at_entry,
                   calls, mode_calls, mouse_enabled, camera_ok, committed, ncommits, seen, snap>>

\* line 273: pyautogui.moveTo raises; nothing in mouse_mover catches it
MouseMoveFails(t) ==
    /\ pc[t] = "m_move"
    /\ Raise(t)
    /\ UNCHANGED <<cfgVars, filtVars, trackVars, targetVars, lifeVars,
                   nstarts, nframes, moves_off, calls, mode_calls, mouse_enabled, camera_ok, obsVars>>

(* ---------------------------------------------------------------------- *)
(* toggle_mouse_control, calibrate_center, set_performance_mode            *)
(* ---------------------------------------------------------------------- *)
\* line 226
Toggled(enabled) == ~enabled
\* calibrate_center with the sign of the offset exchanged
CalibratedWrongSign(raw) == IF raw = NaN THEN NaN ELSE raw - 180
\* lines 263-264
Calibrated(raw) == IF raw = NaN THEN NaN ELSE 180 - raw

(* ---------------------------------------------------------------------- *)
(* process_loop                                                            *)
(* ---------------------------------------------------------------------- *)
\* line 283: while not self.stop_event.is_set() and self.cap.isOpened()
LoopTop(t) ==
    /\ pc[t] = "p_top"
    /\ IF stop_event THEN CallStopFromLoop(t)
       ELSE IF cap = 0 THEN Raise(t)
       ELSE IF handle[cap] /= "open" THEN CallStopFromLoop(t)
       ELSE Step(t, "p_read", frame[t], NoXY)
    /\ UNCHANGED <<cfgVars, filtVars, trackVars, targetVars, lifeVars,
                   nstarts, nframes, moves_off, calls, mode_calls, mouse_enabled, camera_ok, obsVars>>

\* lines 284-286: ret, frame = self.cap.read(); a frame arrives
LoopRead(t) ==
    /\ pc[t] = "p_read"
    /\ cap /= 0 /\ handle[cap] = "open"
    /\ nframes < max_frames
    /\ \E f \in source : Step(t, "p_frame", f, NoXY)
    /\ nframes' = nframes + 1
    /\ UNCHANGED <<cfgVars, filtVars, trackVars, targetVars, lifeVars,
                   nstarts, moves_off, calls, mode_calls, mouse_enabled, camera_ok, obsVars>>

\* lines 284-286: the read fails (released handle, end of stream) or raises
\* (self.cap is None)
LoopReadFails(t) ==
    /\ pc[t] = "p_read"
    /\ IF cap = 0 THEN Raise(t) ELSE CallStopFromLoop(t)
    /\ UNCHANGED <<cfgVars, filtVars, trackVars, targetVars, lifeVars,
                   nstarts, nframes, moves_off, calls, mode_calls, mouse_enabled, camera_ok, obsVars>>

\* lines 288-410 with a face: detection, orientation, ray buffer, angles,
\* calibration, mapping, filters
LoopFace(t) ==
    /\ pc[t] = "p_frame"
    /\ frame[t] \in FaceFrames
    /\ LET lm == LM(frame[t])
           dirs2 == Append_(directions, forward_vec(lm))
           orgs2 == Append_(origins, center(lm))
           yaw == NormYaw(YawSigned(smooth_direction(dirs2)))
           pitch == NormPitch(PitchSigned(smooth_direction(dirs2)))
           cyaw == FAdd(yaw, cal_yaw)
           cpitch == FAdd(pitch, cal_pitch)
       IN  IF face_mesh = "None" \/ CornersRaise(lm)
           THEN \* line 290: None has no process; line 353: int() of a NaN corner
                /\ Raise(t)
                /\ UNCHANGED <<filtVars, trackVars>>
           ELSE /\ origins' = orgs2
                /\ directions' = dirs2
                /\ raw_yaw' = yaw
                /\ raw_pitch' = pitch
                /\ UNCHANGED <<cal_yaw, cal_pitch>>
                /\ IF cyaw = NaN \/ cpitch = NaN
                   THEN \* lines 401-402: int() of a NaN coordinate
                        /\ Raise(t)
                        /\ UNCHANGED filtVars
                   ELSE IF FilterRaises(filter_x, MapX(cyaw))
                   THEN \* line 409: the exception leaves filter_x as it was
                        /\ Raise(t)
                        /\ UNCHANGED filtVars
                   ELSE IF FilterRaises(filter_y, MapY(cpitch))
                   THEN \* line 410: filter_x has taken the sample
                        /\ Raise(t)
                        /\ filter_x' = FilterStep(filter_x, MapX(cyaw))
                        /\ UNCHANGED filter_y
                   ELSE /\ filter_x' = FilterStep(filter_x, MapX(cyaw))
                        /\ filter_y' = FilterStep(filter_y, MapY(cpitch))
                        /\ Step(t, "p_commit", frame[t],
                                <<Round(FilterOut(filter_x, MapX(cyaw))),
                                  Round(FilterOut(filter_y, MapY(cpitch)))>>)
    /\ UNCHANGED <<cfgVars, targetVars, lifeVars,
                   nstarts, nframes, moves_off, calls, mode_calls, mouse_enabled, camera_ok, obsVars>>

\* process_loop that writes the pair without looking at self.mouse_enabled
LoopCommitIgnoresFlag(t) ==
    /\ pc[t] = "p_commit"
    /\ mouse_lock = NoThread
    /\ mouse_lock' = t
    /\ mouse_target' = [mouse_target EXCEPT ![1] = xy[t][1]]
    /\ Step(t, "p_write", frame[t], xy[t])
    /\ UNCHANGED <<cfgVars, filtVars, trackVars, lifeVars,
                   nstarts, nframes, moves_off, calls, mode_calls, mouse_enabled, camera_ok, obsVars>>

\* lines 413-415: if self.mouse_enabled: with self.mouse_lock:
\*                    self.mouse_target[0] = smooth_x
LoopCommit(t) ==
    /\ pc[t] = "p_commit"
    /\ IF mouse_enabled
       THEN /\ mouse_lock = NoThread
            /\ mouse_lock' = t
            /\ mouse_target' = [mouse_target EXCEPT ![1] = xy[t][1]]
            /\ Step(t, "p_write", frame[t], xy[t])
       ELSE /\ Step(t, "p_keys", frame[t], NoXY)
            /\ UNCHANGED targetVars
    /\ UNCHANGED <<cfgVars, filtVars, trackVars, lifeVars,
                   nstarts, nframes, moves_off, calls, mode_calls, mouse_enabled, camera_ok, obsVars>>

\* process_loop that keeps the lock after the write
LoopWriteKeepsLock(t) ==
    /\ pc[t] = "p_write"
    /\ UNCHANGED mouse_lock
    /\ mouse_target' = [mouse_target EXCEPT ![2] = xy[t][2]]
    /\ Step(t, "p_keys", frame[t], NoXY)
    /\ committed' = IF "reads" \in watch THEN mouse_target' ELSE committed
    /\ ncommits' = IF "reads" \in watch THEN ncommits + 1 ELSE ncommits
    /\ since_stop' = [since_stop EXCEPT ![t] = Counted(since_stop[t])]
    /\ UNCHANGED <<cfgVars, filtVars, trackVars, lifeVars,
                   nstarts, nframes, moves_off, calls, mode_calls, mouse_enabled, camera_ok,
                   seen, snap>>

\* line 416: self.mouse_target[1] = smooth_y; the lock is released
LoopWrite(t) ==
    /\ pc[t] = "p_write"
    /\ mouse_lock' = NoThread
    /\ mouse_target' = [mouse_target EXCEPT ![2] = xy[t][2]]
    /\ Step(t, "p_keys", frame[t], NoXY)
    /\ committed' = IF "reads" \in watch THEN mouse_target' ELSE committed
    /\ ncommits' = IF "reads" \in watch THEN ncommits + 1 ELSE ncommits
    /\ since_stop' = [since_stop EXCEPT ![t] = Counted(since_stop[t])]
    /\ UNCHANGED <<cfgVars, filtVars, trackVars, lifeVars,
                   nstarts, nframes, moves_off, calls, mode_calls, mouse_enabled, camera_ok,
                   seen, snap>>

\* lines 430-440: the F7 hot key, then waitKey: 'q' stops, 'c' calibrates
LoopKeys(t) ==
    /\ pc[t] = "p_keys"
    /\ \E f7 \in BOOLEAN, key \in {"none", "q", "c"} :
        /\ mouse_enabled' = IF f7 THEN Toggled(mouse_enabled) ELSE mouse_enabled
        /\ moves_off' = IF f7 THEN 0 ELSE moves_off
        /\ IF key = "q" THEN CallStopFromLoop(t) ELSE Step(t, "p_top", frame[t], NoXY)
        /\ IF key = "c"
           THEN /\ cal_yaw' = Calibrated(raw_yaw)
                /\ cal_pitch' = Calibrated(raw_pitch)
           ELSE UNCHANGED <<cal_yaw, cal_pitch>>
    /\ UNCHANGED <<cfgVars, filtVars, raw_yaw, raw_pitch, origins, directions,
                   targetVars, lifeVars, nstarts, nframes, calls, mode_calls, camera_ok, obsVars>>

\* process_loop that snaps the target back to the screen centre without a face
LoopNoFaceRecentres(t) ==
    /\ pc[t] = "p_frame"
    /\ frame[t] = "noface"
    /\ IF face_mesh = "None" THEN Raise(t) /\ UNCHANGED targetVars
       ELSE /\ mouse_target' = <<center_x, center_y>>
            /\ UNCHANGED mouse_lock
            /\ \E key \in {"none", "q"} :
                  IF key = "q" THEN CallStopFromLoop(t) ELSE Step(t, "p_top", frame[t], NoXY)
    /\ UNCHANGED <<cfgVars, filtVars, trackVars, lifeVars,
                   nstarts, nframes, moves_off, calls, mode_calls, mouse_enabled, camera_ok, obsVars>>

\* lines 288-292, 442-447 without a face: show the frame, 'q' stops
LoopNoFace(t) ==
    /\ pc[t] = "p_frame"
    /\ frame[t] = "noface"
    /\ IF face_mesh = "None" THEN Raise(t)
       ELSE \E key \in {"none", "q"} :
               IF key = "q" THEN CallStopFromLoop(t) ELSE Step(t, "p_top", frame[t], NoXY)
    /\ UNCHANGED <<cfgVars, filtVars, trackVars, targetVars, lifeVars,
                   nstarts, nframes, moves_off, calls, mode_calls, mouse_enabled, camera_ok, obsVars>>

(* ---------------------------------------------------------------------- *)
(* stop()                                                                  *)
(* ---------------------------------------------------------------------- *)
\* stop() without the "!= current_thread" test
ShouldJoinSelfToo(th, cur) == th /= NoThread /\ Alive(th)
\* lines 194-195, 198-199: the thread is joined
ShouldJoin(th, cur) == th /= NoThread /\ Alive(th) /\ th /= cur

\* the host calls stop()
StopCall ==
    /\ pc[Host] = "idle"
    /\ pc' = [pc EXCEPT ![Host] = "s_set"]
    /\ ctx' = [ctx EXCEPT ![Host] = "api"]
    /\ cap_at_entry' = [cap_at_entry EXCEPT ![Host] = cap]
    /\ join_to' = [join_to EXCEPT ![Host] = FALSE]
    /\ calls' = IF calls = "started" THEN "stopped" ELSE calls
    /\ UNCHANGED <<cfgVars, filtVars, trackVars, targetVars, lifeVars, block, frame, xy,
                   nstarts, nframes, start_unavail, moves_off, mode_calls, mouse_enabled,
                   camera_ok, obsVars>>

\* lines 188-189: self.stop_event.set(); the grace period
StopSet(t) ==
    /\ pc[t] = "s_set"
    /\ stop_event' = TRUE
    /\ pc' = [pc EXCEPT ![t] = "s_joinLoop"]
    /\ since_stop' = [u \in Threads |->
                        IF "stops" \in watch /\ pc[u] \in MouseSteps \cup LoopSteps
                              /\ since_stop[u] < 0
                        THEN 0 ELSE since_stop[u]]
    /\ UNCHANGED <<cfgVars, filtVars, trackVars, targetVars, mouse_thread, loop_thread, cap,
                   face_mesh, handle, ctx, block, frame, xy, histVars,
                   mouse_enabled, camera_ok, committed, ncommits, seen, snap>>

\* stop() that goes on without waiting for the loop thread
StopJoinLoopNoWait(t) ==
    /\ pc[t] = "s_joinLoop"
    /\ Step(t, "s_joinMouse", "none", NoXY)
    /\ UNCHANGED <<cfgVars, filtVars, trackVars, targetVars, lifeVars,
                   nstarts, nframes, moves_off, calls, mode_calls, mouse_enabled, camera_ok, obsVars>>

\* lines 194-196: the loop thread is not joined (none, dead, or the caller
\* itself), or the join returns because the thread has ended; Thread.join
\* raises RuntimeError when asked to join the current thread
StopJoinLoop(t) ==
    /\ pc[t] = "s_joinLoop"
    /\ IF ShouldJoin(loop_thread, t)
       THEN loop_thread = t /\ Raise(t)
       ELSE Step(t, "s_joinMouse", "none", NoXY)
    /\ UNCHANGED <<cfgVars, filtVars, trackVars, targetVars, lifeVars,
                   nstarts, nframes, moves_off, calls, mode_calls, mouse_enabled, camera_ok, obsVars>>

\* line 196: join(timeout=1.0) returns with the loop thread still alive
StopJoinLoopTimeout(t) ==
    /\ pc[t] = "s_joinLoop"
    /\ ShouldJoin(loop_thread, t)
    /\ loop_thread /= t
    /\ pc' = [pc EXCEPT ![t] = "s_joinMouse"]
    /\ join_to' = [join_to EXCEPT ![t] = TRUE]
    /\ UNCHANGED <<cfgVars, filtVars, trackVars, targetVars, lifeVars, ctx, block, frame, xy,
                   nstarts, nframes, start_unavail, cap_at_entry,
                   moves_off, calls, mode_calls, mouse_enabled, camera_ok, obsVars>>

\* lines 198-200: as for the loop thread
StopJoinMouse(t) ==
    /\ pc[t] = "s_joinMouse"
    /\ IF ShouldJoin(mouse_thread, t)
       THEN mouse_thread = t /\ Raise(t)
       ELSE Step(t, "s_cap", "none", NoXY)
    /\ UNCHANGED <<cfgVars, filtVars, trackVars, targetVars, lifeVars,
                   nstarts, nframes, moves_off, calls, mode_calls, mouse_enabled, camera_ok, obsVars>>

\* line 200: join(timeout=1.0) returns with the mouse thread still alive
StopJoinMouseTimeout(t) ==
    /\ pc[t] = "s_joinMouse"
    /\ ShouldJoin(mouse_thread, t)
    /\ mouse_thread /= t
    /\ pc' = [pc EXCEPT ![t] = "s_cap"]
    /\ join_to' = [join_to EXCEPT ![t] = TRUE]
    /\ UNCHANGED <<cfgVars, filtVars, trackVars, targetVars, lifeVars, ctx, block, frame, xy,
                   nstarts, nframes, start_unavail, cap_at_entry,
                   moves_off, calls, mode_calls, mouse_enabled, camera_ok, obsVars>>

\* stop() that also forgets the calibration
StopCapResetsOffsets(t) ==
    /\ pc[t] = "s_cap"
    /\ IF cap /= 0
       THEN /\ handle' = [handle EXCEPT ![cap] = "released"]
            /\ cap' = 0
       ELSE UNCHANGED <<cap, handle>>
    /\ pc' = [pc EXCEPT ![t] = "s_mesh"]
    /\ cal_yaw' = 0 /\ cal_pitch' = 0
    /\ UNCHANGED <<cfgVars, filtVars, raw_yaw, raw_pitch, origins, directions, targetVars,
                   stop_event, mouse_thread, loop_thread, face_mesh, ctx, block, frame, xy,
                   histVars, mouse_enabled, camera_ok, obsVars>>

\* lines 203-208: release the camera, self.cap = None
StopCap(t) ==
    /\ pc[t] = "s_cap"
    /\ IF cap /= 0
       THEN /\ handle' = [handle EXCEPT ![cap] = "released"]
            /\ cap' = 0
       ELSE UNCHANGED <<cap, handle>>
    /\ pc' = [pc EXCEPT ![t] = "s_mesh"]
    /\ UNCHANGED <<cfgVars, filtVars, trackVars, targetVars, stop_event, mouse_thread,
                   loop_thread, face_mesh, ctx, block, frame, xy, histVars,
                   mouse_enabled, camera_ok, obsVars>>

\* lines 211-222: close the windows and the detector, self.face_mesh = None
StopMesh(t) ==
    /\ pc[t] = "s_mesh"
    /\ face_mesh' = "None"
    /\ pc' = [pc EXCEPT ![t] = "s_ret"]
    /\ UNCHANGED <<cfgVars, filtVars, trackVars, targetVars, stop_event, mouse_thread,
                   loop_thread, cap, handle, ctx, block, frame, xy, histVars,
                   mouse_enabled, camera_ok, obsVars>>

\* stop() returns: to the host, or to process_loop, which returns as well
\* (lines 438, 447, 450), ending its thread or the blocking start()
StopReturn(t) ==
    /\ pc[t] = "s_ret"
    /\ pc' = Reap([pc EXCEPT ![t] = IF t = Host THEN "idle" ELSE "done"],
                  mouse_thread, loop_thread)
    /\ ctx' = [ctx EXCEPT ![t] = "none"]
    /\ start_unavail' = IF t = Host THEN FALSE ELSE start_unavail
    /\ cap_at_entry' = [cap_at_entry EXCEPT ![t] = 0]
    /\ join_to' = [join_to EXCEPT ![t] = FALSE]
    /\ UNCHANGED <<cfgVars, filtVars, trackVars, targetVars, lifeVars, block, frame, xy,
                   nstarts, nframes, moves_off, calls, mode_calls, mouse_enabled, camera_ok, obsVars>>

(* ---------------------------------------------------------------------- *)
(* Calls of the host that take one step                                    *)
(* ---------------------------------------------------------------------- *)
\* lines 224-228
ToggleMouseControl ==
    /\ pc[Host] = "idle"
    /\ mouse_enabled' = Toggled(mouse_enabled)
    /\ moves_off' = 0
    /\ UNCHANGED <<cfgVars, filtVars, trackVars, targetVars, lifeVars, thrVars,
                   nstarts, nframes, start_unavail, join_to, cap_at_entry,
                   calls, mode_calls, camera_ok, obsVars>>

\* lines 261-265
CalibrateCenter ==
    /\ pc[Host] = "idle"
    /\ cal_yaw' = Calibrated(raw_yaw)
    /\ cal_pitch' = Calibrated(raw_pitch)
    /\ UNCHANGED <<cfgVars, filtVars, raw_yaw, raw_pitch, origins, directions, targetVars,
                   lifeVars, thrVars, histVars, mouse_enabled, camera_ok, obsVars>>

\* set_performance_mode that rebuilds the filters only for the fast preset
SetModeFastFiltersOnly(fm) ==
    /\ fast_mode' = fm
    /\ mouse_sleep' = PresetSleep(fm)
    /\ IF allow_override /\ fm
       THEN /\ euro_freq' = PresetFreq(fm)
            /\ euro_cutoff' = PresetCutoff(fm)
            /\ euro_beta' = PresetBeta(fm)
            /\ filter_x' = OneEuroFilter(PresetCutoff(fm), PresetBeta(fm), PresetFreq(fm))
            /\ filter_y' = OneEuroFilter(PresetCutoff(fm), PresetBeta(fm), PresetFreq(fm))
       ELSE UNCHANGED <<euro_freq, euro_cutoff, euro_beta, filter_x, filter_y>>
    /\ UNCHANGED <<allow_override, envVars>>

\* lines 230-259
SetMode(fm) ==
    /\ fast_mode' = fm
    /\ mouse_sleep' = PresetSleep(fm)
    /\ IF allow_override
       THEN /\ euro_freq' = PresetFreq(fm)
            /\ euro_cutoff' = PresetCutoff(fm)
            /\ euro_beta' = PresetBeta(fm)
            /\ filter_x' = OneEuroFilter(PresetCutoff(fm), PresetBeta(fm), PresetFreq(fm))
            /\ filter_y' = OneEuroFilter(PresetCutoff(fm), PresetBeta(fm), PresetFreq(fm))
       ELSE UNCHANGED <<euro_freq, euro_cutoff, euro_beta, filter_x, filter_y>>
    /\ UNCHANGED <<allow_override, envVars>>

SetPerformanceMode ==
    /\ pc[Host] = "idle"
    /\ Len(mode_calls) < MaxModeCalls
    /\ \E fm \in BOOLEAN : SetMode(fm) /\ mode_calls' = Append(mode_calls, fm)
    /\ UNCHANGED <<trackVars, targetVars, lifeVars, thrVars, nstarts, nframes, start_unavail,
                   join_to, cap_at_entry, moves_off, calls, mouse_enabled, camera_ok, obsVars>>

\* the camera is plugged in or pulled out between two calls of the host
CameraChanges ==
    /\ pc[Host] = "idle"
    /\ nstarts < max_starts
    /\ camera_ok' = ~camera_ok
    /\ UNCHANGED <<cfgVars, filtVars, trackVars, targetVars, lifeVars, thrVars, histVars,
                   mouse_enabled, obsVars>>

(* ---------------------------------------------------------------------- *)
(* Tracking specification: one tracker, started once, every kind of frame  *)
(* ---------------------------------------------------------------------- *)
Next ==
    \/ StartCall
    \/ StartOpen
    \/ StartMouse
    \/ StartLoop
    \/ StopCall
    \/ ToggleMouseControl
    \/ CalibrateCenter
    \/ CameraChanges
    \/ \E t \in Spawned : MouseTop(t)
    \/ \E t \in Spawned : MouseRead(t)
    \/ \E t \in Spawned : MouseCheck(t)
    \/ \E t \in Spawned : MouseMove(t)
    \/ \E t \in Spawned : MouseMoveFails(t)
    \/ \E t \in Threads : LoopTop(t)
    \/ \E t \in Threads : LoopRead(t)
    \/ \E t \in Threads : LoopReadFails(t)
    \/ \E t \in Threads : LoopFace(t)
    \/ \E t \in Threads : LoopCommit(t)
    \/ \E t \in Threads : LoopWrite(t)
    \/ \E t \in Threads : LoopKeys(t)
    \/ \E t \in Threads : LoopNoFace(t)
    \/ \E t \in Threads : StopSet(t)
    \/ \E t \in Threads : StopJoinLoop(t)
    \/ \E t \in Threads : StopJoinLoopTimeout(t)
    \/ \E t \in Threads : StopJoinMouse(t)
    \/ \E t \in Threads : StopJoinMouseTimeout(t)
    \/ \E t \in Threads : StopCap(t)
    \/ \E t \in Threads : StopMesh(t)
    \/ \E t \in Threads : StopReturn(t)

Spec == Init /\ [][Next]_vars

(* ---------------------------------------------------------------------- *)
(* Lifecycle specification: several start()/stop() calls on one tracker,   *)
(* a source that shows no face                                             *)
(* ---------------------------------------------------------------------- *)
InitLife ==
    /\ camera_ok \in BOOLEAN
    /\ source = {"noface"}
    /\ max_starts = MaxStartsLife
    /\ max_frames = MaxFramesLife
    /\ max_threads = MaxThreads
    /\ watch = {}
    /\ Ctor(CtorArgs(NoneV, NoneV, NoneV, FALSE, TRUE))

NextLife ==
    \/ StartCall
    \/ StartOpen
    \/ StartMouse
    \/ StartLoop
    \/ StopCall
    \/ CameraChanges
    \/ \E t \in Spawned : MouseTop(t)
    \/ \E t \in Spawned : MouseRead(t)
    \/ \E t \in Spawned : MouseCheck(t)
    \/ \E t \in Spawned : MouseMove(t)
    \/ \E t \in Threads : LoopTop(t)
    \/ \E t \in Threads : LoopRead(t)
    \/ \E t \in Threads : LoopReadFails(t)
    \/ \E t \in Threads : LoopNoFace(t)
    \/ \E t \in Threads : StopSet(t)
    \/ \E t \in Threads : StopJoinLoop(t)
    \/ \E t \in Threads : StopJoinLoopTimeout(t)
    \/ \E t \in Threads : StopJoinMouse(t)
    \/ \E t \in Threads : StopJoinMouseTimeout(t)
    \/ \E t \in Threads : StopCap(t)
    \/ \E t \in Threads : StopMesh(t)
    \/ \E t \in Threads : StopReturn(t)

SpecLife == InitLife /\ [][NextLife]_vars

TypeOK ==
    /\ cap \in 0..MaxHandles
    /\ mouse_lock \in {NoThread} \cup Threads
    /\ \A t \in Threads : pc[t] \in {"idle", "none", "done", "crashed", "start1", "start2",
                                     "start3", "mode_y", "cal_pitch"} \cup MouseSteps \cup LoopSteps \cup StopSteps

(* ---------------------------------------------------------------------- *)
(* Configuration specification: every way of constructing the tracker,     *)
(* then set_performance_mode calls and filter samples                      *)
(* ---------------------------------------------------------------------- *)
MaxSamples == 1     \* coordinate pairs filtered, configuration specification
ExplicitCutoffs == {NoneV, 0, 1200}
ExplicitBetas == {NoneV, 0, 20}
ExplicitFreqs == {NoneV, 0, 60}
SampleCoords == {10, 320}

InitCfg ==
    /\ camera_ok = TRUE
    /\ source = {}
    /\ max_starts = 0
    /\ max_frames = MaxSamples
    /\ max_threads = MaxThreads
    /\ watch = {}
    /\ \E mc \in ExplicitCutoffs, b \in ExplicitBetas, f \in ExplicitFreqs,
          fm \in BOOLEAN, aro \in BOOLEAN : Ctor(CtorArgs(mc, b, f, fm, aro))

\* lines 409-410 on their own: one coordinate pair through the two filters
FilterSample ==
    /\ nframes < max_frames
    /\ nframes' = nframes + 1
    /\ \E x \in SampleCoords, y \in SampleCoords :
        /\ sample' = <<x, y>>
        /\ filter_x' = FilterStep(filter_x, x)
        /\ filter_y' = FilterStep(filter_y, y)
        /\ xy' = [xy EXCEPT ![Host] = <<Round(FilterOut(filter_x, x)),
                                        Round(FilterOut(filter_y, y))>>]
    /\ UNCHANGED <<fast_mode, allow_override, mouse_sleep, euro_freq, euro_cutoff, euro_beta,
                   args, source, max_starts, max_frames, max_threads, watch, trackVars, targetVars, lifeVars,
                   pc, ctx, block, frame, nstarts, start_unavail, join_to, cap_at_entry,
                   moves_off, calls, mode_calls, mouse_enabled, camera_ok, obsVars>>

NextCfg ==
    \/ SetPerformanceMode
    \/ FilterSample

SpecCfg == InitCfg /\ [][NextCfg]_vars

(* ---------------------------------------------------------------------- *)
(* Lifecycle properties                                                    *)
(* ---------------------------------------------------------------------- *)
\* a stop() called from process_loop is about to return in thread t
LoopStopReturns(t) == pc[t] = "s_ret" /\ ctx[t] = "loop"
\* a stop() called by the host is about to return
HostStopReturns == pc[Host] = "s_ret" /\ ctx[Host] = "api"

\* C1: a stop() called from inside the processing loop (blocking or not,
\* quit key or exit path) never raises, so it never tried to join its own
\* thread, and when it returns the camera handle the tracker held at the call
\* is released and the tracker no longer refers to it: self.cap is None, or a
\* newer handle that a start() of the host has opened in the meantime.
C1_StopInsideLoop ==
    \A t \in Threads :
        /\ ctx[t] /= "stop_raised"
        /\ LoopStopReturns(t) =>
              /\ cap = 0 \/ cap > cap_at_entry[t]
              /\ cap_at_entry[t] /= 0 => handle[cap_at_entry[t]] = "released"

\* C1 witness: the non-blocking processing loop, which is self.loop_thread,
\* returns from its own stop() after releasing the handle it found
C1_Witness ==
    \E t \in Spawned :
        /\ LoopStopReturns(t) /\ loop_thread = t
        /\ cap_at_entry[t] /= 0 /\ handle[cap_at_entry[t]] = "released" /\ cap = 0

\* C2 as claimed: a start() called while the source cannot be opened never
\* gets past opening it: it raises and spawns nothing.
C2_FailedStartSpawnsNothing == start_unavail => pc[Host] = "start1"

\* C3 as claimed: once a stop() called by the host has returned, no loop of
\* the tracker is alive.
C3_AllLoopsEnded == HostStopReturns => \A t \in Spawned : ~Alive(t)

\* C3 amended: once a stop() called by the host has returned, the processing
\* thread and the mouse thread that the tracker references have ended unless
\* one of the two joins timed out.
C3_JoinedLoopsEnded ==
    (HostStopReturns /\ ~join_to[Host]) => (~Alive(loop_thread) /\ ~Alive(mouse_thread))

\* C3 witness: the host's stop() returns, no join timed out, and both threads
\* it joined have run and ended
C3_Witness ==
    /\ HostStopReturns /\ ~join_to[Host]
    /\ loop_thread /= NoThread /\ pc[loop_thread] = "done"
    /\ mouse_thread /= NoThread /\ pc[mouse_thread] = "done"

\* processing loops and mouse loops that are inside their while loop
LoopsRunning == {t \in Threads : pc[t] \in LoopSteps}
MiceRunning == {t \in Threads : pc[t] \in MouseSteps}

\* C4 as claimed: while the host alternates start() and stop(), a returning
\* stop() leaves self.cap and self.face_mesh None, and at most one processing
\* loop and one mouse loop run at any time.
C4_CleanRestart ==
    calls \in {"fresh", "started", "stopped"} =>
        /\ HostStopReturns => (cap = 0 /\ face_mesh = "None")
        /\ Cardinality(LoopsRunning) <= 1
        /\ Cardinality(MiceRunning) <= 1

(* ---------------------------------------------------------------------- *)
(* Tracking properties                                                     *)
(* ---------------------------------------------------------------------- *)
\* C5 as claimed: no pointer move is made while pointer control is off, that
\* is after a toggle_mouse_control() that disabled it has returned.
C5_NoMoveWhileDisabled == moves_off = 0

\* C5 amended: after a toggle that disabled pointer control has returned, the
\* mouse loop makes at most one more move, the one whose check of the flag
\* came before the toggle.
C5_AtMostOneStaleMove == moves_off <= 1

\* C5 witness: control is off, the one stale move has been made and the mouse
\* loop is back at its check of the flag
C5_Witness ==
    /\ ~mouse_enabled /\ moves_off = 1
    /\ \E t \in Spawned : pc[t] = "m_check"

\* C6 as claimed: on every face frame the processing loop takes the shared
\* lock and writes the filtered pair into self.mouse_target, whatever
\* self.mouse_enabled is.
C6_TargetWrittenEveryFaceFrame ==
    [][\A t \in Threads :
          (pc[t] = "p_commit" /\ pc'[t] /= "p_commit") =>
              (pc'[t] = "p_write" /\ mouse_lock' = t /\ mouse_target'[1] = xy[t][1])]_vars

\* C6 amended: on every face frame that gets through estimation both filters
\* advance and the pair is their rounded output; the pair is written into
\* self.mouse_target, under the lock, exactly when self.mouse_enabled is true at
\* line 413, and self.mouse_target is left alone when it is false.
C6_TargetWrittenWhenEnabled ==
    [][\A t \in Threads :
          /\ (pc[t] = "p_frame" /\ pc'[t] = "p_commit") =>
                /\ filter_x'.prev_x /= NoneV /\ filter_y'.prev_x /= NoneV
                /\ xy'[t] = <<Round(filter_x'.prev_x), Round(filter_y'.prev_x)>>
          /\ (pc[t] = "p_commit" /\ pc'[t] /= "p_commit") =>
                IF mouse_enabled
                THEN pc'[t] = "p_write" /\ mouse_lock' = t /\ mouse_target'[1] = xy[t][1]
                ELSE pc'[t] = "p_keys" /\ UNCHANGED <<mouse_target, mouse_lock>>
          /\ (pc[t] = "p_write" /\ pc'[t] /= "p_write") =>
                mouse_lock = t /\ mouse_lock' = NoThread /\ mouse_target' = xy[t]]_vars

\* C6 witness: a face frame has been filtered with pointer control off; the
\* filters hold its position and self.mouse_target does not
C6_Witness ==
    \E t \in Threads :
        /\ pc[t] = "p_keys" /\ frame[t] \in FaceFrames /\ ~mouse_enabled
        /\ filter_x.prev_x /= NoneV
        /\ Round(filter_x.prev_x) /= mouse_target[1]

\* C7: a frame without a face leaves raw yaw and pitch, the ray buffers, both
\* filters and self.mouse_target as they are, and the processing loop goes
\* on to the next frame (or stops on the 'q' key).
C7_NoFaceChangesNothing ==
    [][\A t \in Threads :
          (pc[t] = "p_frame" /\ frame[t] = "noface" /\ face_mesh = "live"
              /\ pc'[t] /= "p_frame") =>
              /\ UNCHANGED <<raw_yaw, raw_pitch, origins, directions,
                             filter_x, filter_y, mouse_target>>
              /\ pc'[t] \in {"p_top", "s_set"}]_vars

\* C7 witness: the loop is back at the top after a frame without a face and
\* the target committed by an earlier face frame is still there
C7_Witness ==
    \E t \in Threads :
        /\ pc[t] = "p_top" /\ frame[t] = "noface"
        /\ mouse_target /= <<center_x, center_y>>
        /\ directions /= <<>>

DegenerateFrames == {"leftisright", "topisbottom", "collinear"}

\* C8 as claimed: a frame with degenerate landmarks is skipped like a frame
\* without a face: tracking state unchanged, the loop goes on to the next
\* frame.
C8_DegenerateSkipped ==
    [][\A t \in Threads :
          (pc[t] = "p_frame" /\ frame[t] \in DegenerateFrames /\ face_mesh = "live"
              /\ pc'[t] /= "p_frame") =>
              /\ UNCHANGED <<raw_yaw, raw_pitch, origins, directions,
                             filter_x, filter_y, mouse_target>>
              /\ pc'[t] = "p_top"]_vars

\* C9 as claimed: the mouse loop leaves a move only for its next tick,
\* also when the move raises.
C9_MoveFailureSurvived ==
    [][\A t \in Spawned : pc[t] = "m_move" => pc'[t] \in {"m_move", "m_top"}]_vars

(* ---------------------------------------------------------------------- *)
(* Configuration properties                                                *)
(* ---------------------------------------------------------------------- *)
\* the coefficients of a filter are those of the constructor arguments a,
\* wherever a gives one
UsesExplicit(f, a) ==
    /\ a.euro_min_cutoff /= NoneV => f.min_cutoff = a.euro_min_cutoff
    /\ a.euro_beta /= NoneV => f.beta = a.euro_beta
    /\ a.euro_freq /= NoneV => f.freq = a.euro_freq

\* C10 as claimed: every coefficient given to the constructor, 0 included,
\* is the coefficient of both filters after construction and after any
\* set_performance_mode calls.
C10_ExplicitCoefficientsKept == UsesExplicit(filter_x, args) /\ UsesExplicit(filter_y, args)

\* the constructor was given no filter coefficient
NoExplicit(a) == a.euro_min_cutoff = NoneV /\ a.euro_beta = NoneV /\ a.euro_freq = NoneV
\* the coefficients of filter f
Coefficients(f) == <<f.min_cutoff, f.beta, f.freq>>

\* C11: on a tracker constructed in slow mode without explicit coefficients,
\* set_performance_mode(True) followed by set_performance_mode(False) leaves
\* the tick interval at 16 ms and the coefficients of both filters and the
\* stored parameters at 1.5, 0.03 and 45, the values of the constructor.
C11_FastThenSlowRestores ==
    (NoExplicit(args) /\ ~args.fast_mode /\ Len(mode_calls) >= 2
        /\ mode_calls[Len(mode_calls) - 1] = TRUE /\ mode_calls[Len(mode_calls)] = FALSE) =>
        /\ mouse_sleep = 16 /\ mouse_sleep = PresetSleep(args.fast_mode)
        /\ Coefficients(filter_x) = <<1500, 30, 45>>
        /\ Coefficients(filter_y) = <<1500, 30, 45>>
        /\ <<euro_cutoff, euro_beta, euro_freq>> = <<1500, 30, 45>>
        /\ Coefficients(filter_x) = <<CtorCutoff(args), CtorBeta(args), CtorFreq(args)>>

\* C11 witness: the two calls have been made on such a tracker, whose filters
\* may be replaced at run time
C11_Witness ==
    /\ NoExplicit(args) /\ ~args.fast_mode /\ args.allow_runtime_override
    /\ mode_calls = <<TRUE, FALSE>>
    /\ ~fast_mode /\ mouse_sleep = 16

OffsetsChange == <<cal_yaw, cal_pitch>>' /= <<cal_yaw, cal_pitch>>
\* the 'c' key of process_loop: calibrate_center() called by thread t
KeyCalibrates(t) == pc[t] = "p_keys" /\ pc'[t] /= "p_keys" /\ OffsetsChange
\* thread t gets a face frame through estimation and the filters
FaceFrameDone(t) == pc[t] = "p_frame" /\ pc'[t] = "p_commit"

\* C12: calibrate_center() sets the offsets to 180 - raw_yaw and
\* 180 - raw_pitch of the latest raw angles, so that raw angle plus offset is
\* 180 on both axes and a face frame with the same raw pose processed next is
\* mapped to the screen centre before filtering; before any frame the
\* offsets it sets are 0.
C12_CalibrationZeroesPose ==
    [][/\ ((CalibrateCenter \/ \E t \in Threads : KeyCalibrates(t))
              /\ raw_yaw /= NaN /\ raw_pitch /= NaN) =>
              /\ cal_yaw' = 180 - raw_yaw /\ cal_pitch' = 180 - raw_pitch
              /\ FAdd(raw_yaw, cal_yaw') = 180 /\ FAdd(raw_pitch, cal_pitch') = 180
       /\ (CalibrateCenter /\ nframes = 0) => (cal_yaw' = 0 /\ cal_pitch' = 0)
       /\ \A t \in Threads :
             (FaceFrameDone(t) /\ raw_yaw' = raw_yaw /\ raw_pitch' = raw_pitch
                 /\ cal_yaw = 180 - raw_yaw /\ cal_pitch = 180 - raw_pitch) =>
                 /\ filter_x' = FilterStep(filter_x, center_x)
                 /\ filter_y' = FilterStep(filter_y, center_y)]_vars

\* C12 witness: a pose away from the centre was calibrated and the next frame
\* with the same pose went into the filters as the screen centre
C12_Witness ==
    \E t \in Threads :
        /\ pc[t] = "p_commit" /\ frame[t] = "flipped" /\ nframes = 2
        /\ raw_yaw = 360 /\ raw_pitch = 0 /\ cal_yaw = -180 /\ cal_pitch = 180
        /\ filter_x.prev_x < 630000 /\ filter_y.prev_x < 470000

AlongReference(sd) == sd /= NaNVec /\ sd[1] = 0 /\ sd[2] = 0 /\ sd[3] < 0
\* the direction sd points against the reference vector
AgainstReference(sd) == sd /= NaNVec /\ sd[1] = 0 /\ sd[2] = 0 /\ sd[3] > 0

\* C14 as claimed: a frame whose smoothed direction points along the
\* reference vector (0, 0, -1) gets raw yaw 180 and raw pitch 180.
C14_ReferenceForwardGives180 ==
    [][\A t \in Threads :
          (FaceFrameDone(t) /\ AlongReference(smooth_direction(directions'))) =>
              (raw_yaw' = 180 /\ raw_pitch' = 180)]_vars

\* C14 amended: raw yaw 180 and raw pitch 180 belong to the smoothed
\* direction (0, 0, 1), against the reference vector (the forward vector of
\* a face that looks into the camera); a smoothed direction along
\* (0, 0, -1) gets raw pitch 0 and a raw yaw of a full turn.
C14_AgainstReferenceGives180 ==
    [][\A t \in Threads :
          /\ (FaceFrameDone(t) /\ AgainstReference(smooth_direction(directions'))) =>
                (raw_yaw' = 180 /\ raw_pitch' = 180)
          /\ (FaceFrameDone(t) /\ AlongReference(smooth_direction(directions'))) =>
                (raw_yaw' % 360 = 0 /\ raw_pitch' = 0)]_vars

\* C14 witness: a frame with smoothed direction (0, 0, 1) has been processed
C14_Witness ==
    \E t \in Threads :
        /\ pc[t] = "p_commit" /\ directions /= <<>>
        /\ smooth_direction(directions) = <<0, 0, 1>>
        /\ raw_yaw = 180 /\ raw_pitch = 180

\* a step in which thread t processes frame f with one sample in the mean,
\* offsets 0 and fresh filters
FirstFrame(t, f) ==
    /\ FaceFrameDone(t) /\ frame[t] = f
    /\ directions = <<>> \/ FilterLength = 1
    /\ cal_yaw = 0 /\ cal_pitch = 0
    /\ filter_x.prev_x = NoneV /\ filter_y.prev_x = NoneV

\* C15 as claimed: the frame left (-1,0,0), right (1,0,0), top (0,1,0),
\* bottom (0,-1,0), front (0,0,-1) gets raw yaw 180, raw pitch 180 and the
\* pair (320, 240).
C15_ScenarioReachesCentre ==
    [][\A t \in Threads :
          FirstFrame(t, "flipped") =>
              (raw_yaw' = 180 /\ raw_pitch' = 180 /\ xy'[t] = <<320, 240>>)]_vars

\* C15 amended: that frame has forward vector (0, 0, -1); it gets raw pitch
\* 0, a raw yaw of a full turn and a pair clamped to the screen edges, with
\* y = 470.  The frame with top (0,-1,0) and bottom (0,1,0) (image
\* coordinates, y downwards) gets 180, 180 and the pair (320, 240); the
\* pair is what line 415-416 write into self.mouse_target.
C15_UprightFrameReachesCentre ==
    [][\A t \in Threads :
          /\ FirstFrame(t, "flipped") =>
                /\ raw_yaw' % 360 = 0 /\ raw_pitch' = 0
                /\ xy'[t][1] \in {10, screen_w - 10} /\ xy'[t][2] = screen_h - 10
          /\ FirstFrame(t, "ahead") =>
                (raw_yaw' = 180 /\ raw_pitch' = 180 /\ xy'[t] = <<320, 240>>)
          /\ (pc[t] = "p_write" /\ pc'[t] = "p_keys") => mouse_target' = xy[t]]_vars

\* C15 witness: the frame of the scenario was the first one and its pair
\* has been committed
C15_Witness ==
    \E t \in Threads :
        /\ pc[t] = "p_keys" /\ frame[t] = "flipped" /\ nframes = 1
        /\ cal_yaw = 0 /\ cal_pitch = 0
        /\ mouse_target[2] = 470 /\ mouse_target /= <<center_x, center_y>>

\* a raw angle lies in [0, 360)
Folded(a) == a >= 0 /\ a < 360

\* C16 as claimed: the raw yaw and the raw pitch stored by a frame lie in
\* [0, 360).
C16_RawAnglesHalfOpen ==
    /\ raw_yaw /= NaN => Folded(raw_yaw)
    /\ raw_pitch /= NaN => Folded(raw_pitch)

Deg(n) == n * AngleDen
YawLow == Deg(180 - yaw_range)
YawHigh == Deg(180 + yaw_range)
PitchLow == Deg(180 - pitch_range)
PitchHigh == Deg(180 + pitch_range)
\* calibrated angles: far outside the range, negative, the ends of the
\* range, neighbours 1/AngleDen degree and one degree apart
SampleYaws ==
    {Deg(-400), Deg(-1), YawLow, YawLow + 1, YawLow + Deg(1), Deg(180), Deg(180) + 1,
     Deg(181), YawHigh - Deg(1), YawHigh - 1, YawHigh, Deg(600)}
SamplePitches ==
    {Deg(-400), Deg(-1), PitchLow, PitchLow + 1, PitchLow + Deg(1), Deg(180), Deg(180) + 1,
     Deg(181), PitchHigh - Deg(1), PitchHigh - 1, PitchHigh, Deg(600)}

InitMap ==
    /\ camera_ok = TRUE
    /\ source = {}
    /\ max_starts = 0
    /\ max_frames = 0
    /\ max_threads = MaxThreads
    /\ watch = {}
    /\ Ctor(CtorArgs(NoneV, NoneV, NoneV, FALSE, TRUE))

\* lines 401-406: a calibrated pose is mapped to screen coordinates
MapSample ==
    /\ \E yaw \in SampleYaws, pitch \in SamplePitches :
        /\ sample' = <<yaw, pitch>>
        /\ xy' = [xy EXCEPT ![Host] = <<ClampX(ScreenX(yaw, AngleDen)),
                                        ClampY(ScreenY(pitch, AngleDen))>>]
    /\ UNCHANGED <<fast_mode, allow_override, mouse_sleep, euro_freq, euro_cutoff, euro_beta,
                   args, source, max_starts, max_frames, max_threads, watch, filtVars, trackVars, targetVars,
                   lifeVars, pc, ctx, block, frame, histVars, mouse_enabled, camera_ok, obsVars>>

NextMap == MapSample

SpecMap == InitMap /\ [][NextMap]_vars

\* C17: whatever the calibrated yaw and pitch are, far outside the range
\* and negative values included, the mapped screen_x lies in
\* [10, screen_w - 10] and the mapped screen_y in [10, screen_h - 10].
C17_MappedInsideMargins ==
    sample /= NoXY =>
        /\ xy[Host][1] >= 10 /\ xy[Host][1] <= screen_w - 10
        /\ xy[Host][2] >= 10 /\ xy[Host][2] <= screen_h - 10

\* C17 witness: a yaw of -400 degrees and a pitch of 600 degrees have been
\* mapped, both to the lower margin
C17_Witness == sample = <<Deg(-400), Deg(600)>> /\ xy[Host] = <<10, 10>>

\* both samples of a step are mapped poses inside the configured range
YawsInRange ==
    /\ sample /= NoXY
    /\ sample[1] >= YawLow /\ sample[1] <= YawHigh
    /\ sample'[1] >= YawLow /\ sample'[1] <= YawHigh
PitchesInRange ==
    /\ sample /= NoXY
    /\ sample[2] >= PitchLow /\ sample[2] <= PitchHigh
    /\ sample'[2] >= PitchLow /\ sample'[2] <= PitchHigh

\* C18 as claimed: inside the configured range a greater yaw is mapped to
\* a strictly greater screen_x and a greater pitch to a strictly smaller
\* screen_y.
C18_StrictlyMonotonic ==
    [][/\ (YawsInRange /\ sample[1] < sample'[1]) => xy[Host][1] < xy'[Host][1]
       /\ (PitchesInRange /\ sample[2] < sample'[2]) => xy[Host][2] > xy'[Host][2]]_vars

\* C18 amended: inside the configured range a greater yaw is never mapped
\* to a smaller screen_x and a greater pitch never to a greater screen_y;
\* the order is strict for angles at least one degree apart, while closer
\* angles can share a pixel (integer truncation, the margins of 10 pixels).
C18_Monotonic ==
    [][/\ (YawsInRange /\ sample[1] < sample'[1]) =>
             /\ xy[Host][1] <= xy'[Host][1]
             /\ sample'[1] - sample[1] >= Deg(1) => xy[Host][1] < xy'[Host][1]
       /\ (PitchesInRange /\ sample[2] < sample'[2]) =>
             /\ xy[Host][2] >= xy'[Host][2]
             /\ sample'[2] - sample[2] >= Deg(1) => xy[Host][2] > xy'[Host][2]]_vars

\* C18 witness: the yaw 1/AngleDen degree above the lower end of the range
\* has been mapped to the pixel of the lower end itself, the pitch
\* 1/AngleDen degree above 180 degrees one pixel above that of 180 degrees
C18_Witness ==
    /\ sample = <<YawLow + 1, Deg(180) + 1>>
    /\ xy[Host][1] = ClampX(ScreenX(YawLow, AngleDen))
    /\ xy[Host][2] = ClampY(ScreenY(Deg(180), AngleDen)) - 1

(* ---------------------------------------------------------------------- *)
(* Shared-target specification: the tracking specification with the reads  *)
(* and writes of self.mouse_target recorded                                *)
(* ---------------------------------------------------------------------- *)
InitTick ==
    /\ camera_ok = TRUE
    /\ source = {"ahead", "flipped", "noface"}
    /\ max_starts = StartsPerTracker
    /\ max_frames = MaxFrames
    /\ max_threads = MaxThreads
    /\ watch = {"reads"}
    /\ Ctor(CtorArgs(NoneV, NoneV, NoneV, FALSE, TRUE))

SpecTick == InitTick /\ [][Next]_vars

\* the steps inside a "with self.mouse_lock" block
LockedSteps == {"m_read", "p_write"}
InLocked == {t \in Threads : pc[t] \in LockedSteps}

\* C21: self.mouse_target is read (line 271) and written (lines 415-416)
\* only by a thread that holds self.mouse_lock; at most one thread is inside
\* a locked block; the lock is held in those blocks only, so never during
\* cap.read(), pyautogui.moveTo() or a sleep.
C21_TargetUnderLock ==
    /\ [](/\ Cardinality(InLocked) <= 1
          /\ \A t \in Threads : pc[t] \in LockedSteps <=> mouse_lock = t)
    /\ [][/\ mouse_target' /= mouse_target =>
                \E t \in Threads : \/ pc[t] = "p_commit" /\ mouse_lock' = t
                                   \/ pc[t] = "p_write" /\ mouse_lock = t
          /\ \A t \in Spawned :
                (pc[t] \in {"m_top", "m_read"} /\ xy'[t] /= xy[t]) =>
                    (mouse_lock = t /\ xy'[t] = mouse_target)]_vars

\* C21 witness: the mouse loop holds the lock for its read while the
\* processing loop waits with a pair to write
C21_Witness ==
    \E t \in Spawned, u \in Threads :
        /\ pc[t] = "m_read" /\ mouse_lock = t
        /\ pc[u] = "p_commit" /\ mouse_enabled /\ xy[u] /= mouse_target

\* a step in which mouse loop t reads self.mouse_target
TickReads(t) == pc[t] = "m_read" /\ pc'[t] = "m_check"

\* C22: the pair a tick reads is the pair of the latest complete write of
\* self.mouse_target, or the initial centre when there was none, never a mix
\* of two writes; a later tick never reads an older write than an earlier
\* one; outside the locked block self.mouse_target is that pair.
C22_TickReadsLatestCommit ==
    /\ [](/\ seen <= ncommits
          /\ mouse_lock = NoThread => mouse_target = committed
          /\ ncommits = 0 => committed = <<center_x, center_y>>)
    /\ [][/\ \A t \in Spawned :
                TickReads(t) => (xy'[t] = committed /\ seen' = ncommits /\ seen' >= seen)
          /\ committed' /= committed =>
                \E t \in Threads : pc[t] = "p_write" /\ committed' = xy[t]
          /\ ncommits' >= ncommits]_vars

\* C22 witness: a tick that read the initial centre reads again after two
\* writes and gets the pair of the second
C22_Witness ==
    \E t \in Spawned :
        /\ pc[t] = "m_check" /\ seen = 2 /\ ncommits = 2
        /\ xy[t] = committed /\ committed /= <<center_x, center_y>>

\* C24: after the constructor and after every set_performance_mode call
\* self.mouse_sleep is 5 ms when the mode is fast and 16 ms when it is not,
\* with or without explicit coefficients; the mode is that of the last call
\* (of the constructor before any call); when allow_override is true the
\* stored coefficients and those of both filters are the preset of the mode.
C24_ModeSetsTickAndPreset ==
    LET preset == IF fast_mode THEN <<800, 15, 120>> ELSE <<1500, 30, 45>>
    IN  /\ fast_mode = IF mode_calls = <<>> THEN args.fast_mode
                       ELSE mode_calls[Len(mode_calls)]
        /\ mouse_sleep = IF fast_mode THEN 5 ELSE 16
        /\ allow_override =>
              /\ <<euro_cutoff, euro_beta, euro_freq>> = preset
              /\ Coefficients(filter_x) = preset
              /\ Coefficients(filter_y) = preset

\* C24 witness: a tracker built slow with an explicit cut-off has been
\* switched to fast: the tick interval follows, the filters keep 1.2
C24_Witness ==
    /\ args.euro_min_cutoff = 1200 /\ ~args.fast_mode /\ ~allow_override
    /\ mode_calls = <<TRUE>> /\ fast_mode /\ mouse_sleep = 5
    /\ filter_x.min_cutoff = 1200

\* C28 as claimed: the processing loop calls isOpened (line 283) and read
\* (line 284) only on a handle that is neither None nor released, and
\* process (line 290) only on a detector that is not None.
C28_NoUseAfterRelease ==
    [][\A t \in Threads :
          /\ (pc[t] = "p_top" /\ pc'[t] /= "p_top" /\ ~stop_event) =>
                (cap /= 0 /\ handle[cap] /= "released")
          /\ (pc[t] = "p_read" /\ pc'[t] /= "p_read") =>
                (cap /= 0 /\ handle[cap] /= "released")
          /\ (pc[t] = "p_frame" /\ pc'[t] /= "p_frame") => face_mesh /= "None"]_vars

(* ---------------------------------------------------------------------- *)
(* Host-call specification: start(block=False) and stop() called by the    *)
(* host in any order on one tracker, a source that shows no face           *)
(* ---------------------------------------------------------------------- *)
InitHost ==
    /\ camera_ok = TRUE
    /\ source = {"noface"}
    /\ max_starts = MaxStartsLife
    /\ max_frames = MaxFramesLife
    /\ max_threads = HostThreads
    /\ watch = {"stops"}
    /\ Ctor(CtorArgs(NoneV, NoneV, NoneV, FALSE, TRUE))

NextHost ==
    \/ StartNonBlocking
    \/ StartOpen
    \/ StartMouse
    \/ StartLoop
    \/ StopCall
    \/ \E t \in Spawned : MouseTop(t)
    \/ \E t \in Spawned : MouseRead(t)
    \/ \E t \in Spawned : MouseCheck(t)
    \/ \E t \in Spawned : MouseMove(t)
    \/ \E t \in Threads : LoopTop(t)
    \/ \E t \in Threads : LoopRead(t)
    \/ \E t \in Threads : LoopReadFails(t)
    \/ \E t \in Threads : LoopNoFace(t)
    \/ \E t \in Threads : StopSet(t)
    \/ \E t \in Threads : StopJoinLoop(t)
    \/ \E t \in Threads : StopJoinLoopTimeout(t)
    \/ \E t \in Threads : StopJoinMouse(t)
    \/ \E t \in Threads : StopJoinMouseTimeout(t)
    \/ \E t \in Threads : StopCap(t)
    \/ \E t \in Threads : StopMesh(t)
    \/ \E t \in Threads : StopReturn(t)

SpecHost == InitHost /\ [][NextHost]_vars

\* C25 as claimed: a loop that was running when stop() set the signal
\* makes at most one more pointer move (mouse loop) or one more write of
\* self.mouse_target (processing loop).
C25_AtMostOneMoreAfterStop == \A t \in Threads : since_stop[t] <= 1

\* C27 as claimed: whatever start(block=False) and stop() calls the host
\* makes, at most one mouse loop and at most one processing loop of the
\* tracker run at any time.
C27_OneLoopOfEachKind == Cardinality(MiceRunning) <= 1 /\ Cardinality(LoopsRunning) <= 1

(* ---------------------------------------------------------------------- *)
(* Scheduling specification: the tracking specification under a fair       *)
(* scheduler.  A runnable thread goes on: the steps of mouse_mover (a      *)
(* moveTo returns or raises), the second write of a commit, the steps of   *)
(* stop() (its joins have a timeout).  Nothing is assumed of cap.read(),   *)
(* of frame processing, which may block, or of the calls of the host.      *)
(* ---------------------------------------------------------------------- *)
InitFair ==
    /\ camera_ok = TRUE
    /\ source = {"ahead", "collinear", "noface"}
    /\ max_starts = StartsPerTracker
    /\ max_frames = MaxFramesLife
    /\ max_threads = MaxThreads
    /\ watch = {}
    /\ Ctor(CtorArgs(NoneV, NoneV, NoneV, FALSE, TRUE))

Fairness ==
    /\ \A t \in Spawned : WF_vars(MouseTop(t))
    /\ \A t \in Spawned : WF_vars(MouseRead(t))
    /\ \A t \in Spawned : WF_vars(MouseCheck(t))
    /\ \A t \in Spawned : WF_vars(MouseMove(t) \/ MouseMoveFails(t))
    /\ \A t \in Threads : WF_vars(LoopWrite(t))
    /\ \A t \in Threads : WF_vars(StopSet(t))
    /\ \A t \in Threads : WF_vars(StopJoinLoop(t) \/ StopJoinLoopTimeout(t))
    /\ \A t \in Threads : WF_vars(StopJoinMouse(t) \/ StopJoinMouseTimeout(t))
    /\ \A t \in Threads : WF_vars(StopCap(t))
    /\ \A t \in Threads : WF_vars(StopMesh(t))
    /\ \A t \in Threads : WF_vars(StopReturn(t))

SpecFair == InitFair /\ [][Next]_vars /\ Fairness

\* start() has started the mouse thread, no stop() has set the signal and
\* pointer control is on
TrackerRunning == mouse_thread /= NoThread /\ ~stop_event /\ mouse_enabled
\* a mouse loop is calling pyautogui.moveTo
MoveIssued == \E t \in Spawned : pc[t] = "m_move"

\* C23 as claimed: as long as the tracker runs with pointer control on, the
\* mouse loop goes on issuing pointer moves, whatever the processing loop
\* does, even when it is blocked for ever.
C23_MouseLoopKeepsTicking == TrackerRunning ~> (MoveIssued \/ ~TrackerRunning)

\* the processing thread has ended: it returned or an exception ended it
LoopDead == loop_thread /= NoThread /\ pc[loop_thread] \in {"done", "crashed"}

\* C26 as claimed: once the processing loop has ended, for whatever reason,
\* the camera gets released and the mouse loop ends.
C26_LoopEndStopsTracker == LoopDead ~> (cap = 0 /\ MiceRunning = {})

(* ---------------------------------------------------------------------- *)
(* Coefficient specification: the tracking specification for trackers      *)
(* constructed with a negative beta or a negative frequency, which the     *)
(* constructor accepts like any other non-zero number (lines 110-118).     *)
(* ---------------------------------------------------------------------- *)
InitBeta ==
    /\ camera_ok = TRUE
    /\ source = {"ahead", "flipped", "noface"}
    /\ max_starts = StartsPerTracker
    /\ max_frames = MaxFrames
    /\ max_threads = MaxThreads
    /\ watch = {}
    /\ \E b \in {NoneV, -PresetBeta(FALSE)}, f \in {NoneV, -PresetFreq(FALSE)} :
           Ctor(CtorArgs(NoneV, b, f, FALSE, TRUE))

SpecBeta == InitBeta /\ [][Next]_vars

\* lines 405-406: the rectangle the clamp keeps the mapped pair in
InMargins(p) ==
    /\ 10 <= p[1] /\ p[1] <= screen_w - 10
    /\ 10 <= p[2] /\ p[2] <= screen_h - 10
\* the target, and every pair a mouse loop is handing to moveTo
TargetInMargins ==
    /\ InMargins(mouse_target)
    /\ \A t \in Spawned : pc[t] = "m_move" => InMargins(xy[t])

\* C29 as claimed: on a screen of at least 20 pixels each way and with a
\* positive min cutoff the target and every pointer move are inside
\* [10, screen_w-10] x [10, screen_h-10].
C29_PositiveCutoffInMargins ==
    (screen_w >= 20 /\ screen_h >= 20 /\ CtorCutoff(args) > 0) => TargetInMargins

\* C29, amended: the same with a beta that is not negative and a positive
\* frequency as well; then alpha is in (0, 1] and the blend of two values of
\* the rectangle stays in it.
C29_TargetInMargins ==
    (screen_w >= 20 /\ screen_h >= 20 /\ CtorCutoff(args) > 0
        /\ CtorBeta(args) >= 0 /\ CtorFreq(args) > 0) => TargetInMargins

\* a move is being made to a committed target that is a proper blend: neither
\* the centre nor a clamped coordinate
C29_Witness ==
    /\ CtorBeta(args) >= 0 /\ CtorFreq(args) > 0
    /\ \E t \in Spawned : pc[t] = "m_move" /\ xy[t] = mouse_target
    /\ mouse_target[1] \notin {center_x, 10, screen_w - 10}
    /\ mouse_target[2] \notin {center_y, 10, screen_h - 10}

(* ---------------------------------------------------------------------- *)
(* Interleaving specification: the tracking specification with the steps   *)
(* that touch fields shared without a lock taken one statement at a time.  *)
(* set_performance_mode assigns self.filter_x (line 255) and self.filter_y *)
(* (line 256), process_loop uses them at lines 409 and 410;                *)
(* calibrate_center reads self.raw_yaw (line 263) and self.raw_pitch       *)
(* (line 264), process_loop stores them at lines 393 and 394.  The         *)
(* interpreter may switch threads between any two of these statements.     *)
(* ---------------------------------------------------------------------- *)
InitRace ==
    /\ camera_ok = TRUE
    /\ source = {"flipped", "noface"}
    /\ max_starts = StartsPerTracker
    /\ max_frames = MaxFramesLife
    /\ max_threads = MaxThreads
    /\ watch = {}
    /\ Ctor(CtorArgs(NoneV, NoneV, NoneV, FALSE, TRUE))

\* lines 230-255: set_performance_mode up to the assignment of self.filter_x
SetModeFilterX ==
    /\ pc[Host] = "idle"
    /\ Len(mode_calls) < MaxModeCalls
    /\ \E fm \in BOOLEAN :
          /\ fast_mode' = fm
          /\ mouse_sleep' = PresetSleep(fm)
          /\ mode_calls' = Append(mode_calls, fm)
          /\ IF allow_override
             THEN /\ euro_freq' = PresetFreq(fm)
                  /\ euro_cutoff' = PresetCutoff(fm)
                  /\ euro_beta' = PresetBeta(fm)
                  /\ filter_x' = OneEuroFilter(PresetCutoff(fm), PresetBeta(fm), PresetFreq(fm))
                  /\ pc' = [pc EXCEPT ![Host] = "mode_y"]
             ELSE UNCHANGED <<euro_freq, euro_cutoff, euro_beta, filter_x, pc>>
    /\ UNCHANGED <<allow_override, envVars, filter_y, trackVars, targetVars, lifeVars,
                   ctx, block, frame, xy, nstarts, nframes, start_unavail, join_to,
                   cap_at_entry, moves_off, calls, mouse_enabled, camera_ok, obsVars>>

\* line 256: self.filter_y = OneEuroFilter(cutoff, beta, 1.0, freq)
SetModeFilterY ==
    /\ pc[Host] = "mode_y"
    /\ filter_y' = OneEuroFilter(PresetCutoff(fast_mode), PresetBeta(fast_mode),
                                 PresetFreq(fast_mode))
    /\ pc' = [pc EXCEPT ![Host] = "idle"]
    /\ UNCHANGED <<cfgVars, filter_x, trackVars, targetVars, lifeVars,
                   ctx, block, frame, xy, histVars, mouse_enabled, camera_ok, obsVars>>

\* line 263: self.cal_yaw = 180.0 - self.raw_yaw
CalibrateYaw ==
    /\ pc[Host] = "idle"
    /\ cal_yaw' = Calibrated(raw_yaw)
    /\ pc' = [pc EXCEPT ![Host] = "cal_pitch"]
    /\ snap' = [snap EXCEPT !.cal = snap.yaws]
    /\ UNCHANGED <<cfgVars, filtVars, cal_pitch, raw_yaw, raw_pitch, origins, directions,
                   targetVars, lifeVars, ctx, block, frame, xy, histVars, mouse_enabled,
                   camera_ok, committed, ncommits, seen, since_stop>>

\* line 264: self.cal_pitch = 180.0 - self.raw_pitch
CalibratePitch ==
    /\ pc[Host] = "cal_pitch"
    /\ cal_pitch' = Calibrated(raw_pitch)
    /\ pc' = [pc EXCEPT ![Host] = "idle"]
    /\ snap' = [snap EXCEPT !.cal = NoneV]
    /\ UNCHANGED <<cfgVars, filtVars, cal_yaw, raw_yaw, raw_pitch, origins, directions,
                   targetVars, lifeVars, ctx, block, frame, xy, histVars, mouse_enabled,
                   camera_ok, committed, ncommits, seen, since_stop>>

\* lines 288-393 with a face: detection, orientation, ray buffer, angles,
\* self.raw_yaw = yaw_deg
LoopRawYaw(t) ==
    /\ pc[t] = "p_frame"
    /\ frame[t] \in FaceFrames
    /\ LET lm == LM(frame[t])
           dirs2 == Append_(directions, forward_vec(lm))
           orgs2 == Append_(origins, center(lm))
       IN  IF face_mesh = "None" \/ CornersRaise(lm)
           THEN /\ Raise(t)
                /\ UNCHANGED <<trackVars, snap>>
           ELSE /\ origins' = orgs2
                /\ directions' = dirs2
                /\ raw_yaw' = NormYaw(YawSigned(smooth_direction(dirs2)))
                /\ snap' = [snap EXCEPT !.yaws = snap.yaws + 1]
                /\ Step(t, "p_raw_pitch", frame[t], NoXY)
                /\ UNCHANGED <<raw_pitch, cal_yaw, cal_pitch>>
    /\ UNCHANGED <<cfgVars, filtVars, targetVars, lifeVars,
                   nstarts, nframes, moves_off, calls, mode_calls, mouse_enabled, camera_ok,
                   committed, ncommits, seen, since_stop>>

\* lines 394-409: self.raw_pitch = pitch_deg, calibration, mapping, clamp,
\* self.filter_x.filter(screen_x); the thread holds smooth_x and screen_y
LoopRawPitch(t) ==
    /\ pc[t] = "p_raw_pitch"
    /\ LET yaw == NormYaw(YawSigned(smooth_direction(directions)))
           pitch == NormPitch(PitchSigned(smooth_direction(directions)))
           cyaw == FAdd(yaw, cal_yaw)
           cpitch == FAdd(pitch, cal_pitch)
       IN  /\ raw_pitch' = pitch
           /\ UNCHANGED <<cal_yaw, cal_pitch, raw_yaw, origins, directions>>
           /\ IF cyaw = NaN \/ cpitch = NaN \/ FilterRaises(filter_x, MapX(cyaw))
              THEN /\ Raise(t)
                   /\ snap' = [snap EXCEPT !.pitches = snap.pitches + 1]
                   /\ UNCHANGED filtVars
              ELSE /\ filter_x' = FilterStep(filter_x, MapX(cyaw))
                   /\ snap' = [snap EXCEPT !.pitches = snap.pitches + 1,
                                           !.filt = Coefficients(filter_x)]
                   /\ Step(t, "p_filter_y", frame[t],
                           <<Round(FilterOut(filter_x, MapX(cyaw))), MapY(cpitch)>>)
                   /\ UNCHANGED filter_y
    /\ UNCHANGED <<cfgVars, targetVars, lifeVars,
                   nstarts, nframes, moves_off, calls, mode_calls, mouse_enabled, camera_ok,
                   committed, ncommits, seen, since_stop>>

\* line 410: smooth_y = int(round(self.filter_y.filter(screen_y)))
LoopFilterY(t) ==
    /\ pc[t] = "p_filter_y"
    /\ IF FilterRaises(filter_y, xy[t][2])
       THEN /\ Raise(t)
            /\ UNCHANGED filter_y
       ELSE /\ filter_y' = FilterStep(filter_y, xy[t][2])
            /\ Step(t, "p_commit", frame[t],
                    <<xy[t][1], Round(FilterOut(filter_y, xy[t][2]))>>)
    /\ snap' = [snap EXCEPT !.filt = NoneV]
    /\ UNCHANGED <<cfgVars, filter_x, trackVars, targetVars, lifeVars,
                   nstarts, nframes, moves_off, calls, mode_calls, mouse_enabled, camera_ok,
                   committed, ncommits, seen, since_stop>>

NextRace ==
    \/ StartNonBlocking
    \/ StartOpen
    \/ StartMouse
    \/ StartLoop
    \/ StopCall
    \/ ToggleMouseControl
    \/ SetModeFilterX
    \/ SetModeFilterY
    \/ CalibrateYaw
    \/ CalibratePitch
    \/ \E t \in Spawned : MouseTop(t)
    \/ \E t \in Spawned : MouseRead(t)
    \/ \E t \in Spawned : MouseCheck(t)
    \/ \E t \in Spawned : MouseMove(t)
    \/ \E t \in Threads : LoopTop(t)
    \/ \E t \in Threads : LoopRead(t)
    \/ \E t \in Threads : LoopReadFails(t)
    \/ \E t \in Threads : LoopRawYaw(t)
    \/ \E t \in Threads : LoopRawPitch(t)
    \/ \E t \in Threads : LoopFilterY(t)
    \/ \E t \in Threads : LoopCommit(t)
    \/ \E t \in Threads : LoopWrite(t)
    \/ \E t \in Threads : LoopKeys(t)
    \/ \E t \in Threads : LoopNoFace(t)
    \/ \E t \in Threads : StopSet(t)
    \/ \E t \in Threads : StopJoinLoop(t)
    \/ \E t \in Threads : StopJoinLoopTimeout(t)
    \/ \E t \in Threads : StopJoinMouse(t)
    \/ \E t \in Threads : StopJoinMouseTimeout(t)
    \/ \E t \in Threads : StopCap(t)
    \/ \E t \in Threads : StopMesh(t)
    \/ \E t \in Threads : StopReturn(t)

SpecRace == InitRace /\ [][NextRace]_vars

\* thread t applies self.filter_y to the frame it holds
FilterYStep(t) == pc[t] = "p_filter_y" /\ pc'[t] = "p_commit"
\* the host's calibrate_center() reads self.raw_pitch
HostReadsRawPitch == pc[Host] = "cal_pitch" /\ pc'[Host] = "idle"

\* C30 as claimed: with set_performance_mode or calibrate_center called by
\* the host while the processing loop runs, a frame is filtered on both axes
\* by filters built from the same coefficients, and a calibration takes the
\* raw yaw and the raw pitch that one and the same frame stored.
C30_NoPartialUpdate ==
    [][/\ \A t \in Threads : FilterYStep(t) => Coefficients(filter_y) = snap.filt
       /\ HostReadsRawPitch => snap.pitches = snap.cal]_vars
====
